---- MODULE Spec2Model ----
(***************************************************************************)
(* Leak detection and suppression scoring of the Forg3t Protocol MVP.      *)
(*                                                                         *)
(* The module models                                                       *)
(*   - the two leak detectors (LlamaUnlearningEngine.detectTargetInResponse *)
(*     with calculateConfidence, and the backend's                         *)
(*     HuggingFaceModelProcessor.detectTargetInResponse),                  *)
(*   - the two copies of calculateSuppressionMetrics,                      *)
(*   - a run of LlamaUnlearningEngine.performWhiteBoxUnlearning,           *)
(*   - a backend job (processModelInBackground),                           *)
(*   - RealLlamaUnlearningEngine.startProcessing with pollJobStatus,       *)
(*   - one engine instance with cancelOperation and a second run, and      *)
(*   - the page Unlearning (handleBlackboxUnlearning).                     *)
(*                                                                         *)
(* Strings are sequences of one-character strings.  A JavaScript number    *)
(* that results from a division is the pair <<n, d>> standing for n / d;   *)
(* <<0, 0>> is NaN (0 / 0).                                                *)
(***************************************************************************)
EXTENDS Integers, Sequences, FiniteSets, TLC

VARIABLES
    pc,           \* position of the harness, run or job the specification is about
    target,       \* the target phrase (config.targetText, request.targetText)
    response,     \* detector harness: the response handed to the detectors
    verdict,      \* detector harness: what the detector that ran returned
    config,       \* run: what of config is given (modelFile, huggingFaceToken); job: of the request
    phase,        \* run/job: the phase being probed ("pre", "post")
    preResults,   \* pre phase result set (preTestResults, preTests)
    postResults,  \* post phase result set (postTestResults, postTests)
    metrics,      \* what calculateSuppressionMetrics returned, or NoMetrics
    result,       \* run: the LlamaUnlearningResult returned; job: the last status
    calls,        \* run: the calls made so far that leave the engine, and its waits
    abortController, \* engine instance: the controller its field abortController holds
    aborted,      \* engine instance: the controllers whose signal is aborted
    cancelled,    \* whether a cancel was invoked while the run was in progress
    ui,           \* page: its React state (blackboxLoading, blackboxProgress, assistantResults)
    requests,     \* database: the rows inserted into unlearning_requests
    onProgress,   \* run: the values its callback onProgress was called with so far
    jobStore,     \* job-status: the Map jobStore, from job ids to records
    users,        \* database: the rows of the table users
    jobData       \* pollJobStatus: the record its latest poll was answered with

vars == <<pc, target, response, verdict, config, phase, preResults, postResults,
          metrics, result, calls, abortController, aborted, cancelled, ui, requests,
          onProgress, jobStore, users, jobData>>

\* the state of the engine instance around a run
instanceVars == <<abortController, aborted, cancelled>>

\* the state of the page and of the database
pageVars == <<ui, requests>>

---------------------------------------------------------------------------
(* Bounds of the model.                                                    *)

\* most tokens joined (with single spaces) into a target phrase of the detector harness
MaxTargetWords == 3
\* most tokens joined into a response of the detector harness
MaxResponseWords == 2
\* longest phase result set handed to the scorer harness
MaxTests == 5

---------------------------------------------------------------------------
(* JavaScript strings.                                                     *)

UpperChars == <<"A", "B", "C", "D", "E", "F", "G", "H", "I", "J", "K", "L", "M",
                "N", "O", "P", "Q", "R", "S", "T", "U", "V", "W", "X", "Y", "Z">>

LowerChars == <<"a", "b", "c", "d", "e", "f", "g", "h", "i", "j", "k", "l", "m",
                "n", "o", "p", "q", "r", "s", "t", "u", "v", "w", "x", "y", "z">>

\* String.prototype.toLowerCase on one character
LowerChar(c) ==
    IF \E i \in 1..Len(UpperChars) : UpperChars[i] = c
    THEN LowerChars[CHOOSE i \in 1..Len(UpperChars) : UpperChars[i] = c]
    ELSE c

\* String.prototype.toLowerCase
toLowerCase(s) == [i \in 1..Len(s) |-> LowerChar(s[i])]

\* String.prototype.includes: t occurs in s as a contiguous substring
\* (the empty string occurs in every string)
includes(s, t) ==
    \E i \in 0..(Len(s) - Len(t)) : SubSeq(s, i + 1, i + Len(t)) = t

\* String.prototype.split(' '): cut at every single space character; two
\* adjacent spaces, a leading or a trailing space give an empty token, and
\* the empty string gives one empty token
RECURSIVE split(_)
split(s) ==
    IF \A i \in 1..Len(s) : s[i] # " "
    THEN <<s>>
    ELSE LET i == CHOOSE k \in 1..Len(s) :
                      s[k] = " " /\ \A j \in 1..(k - 1) : s[j] # " "
         IN  <<SubSeq(s, 1, i - 1)>> \o split(SubSeq(s, i + 1, Len(s)))

\* the characters String.prototype.trim strips
WhiteSpace == {" ", "\t", "\n", "\r"}

\* String.prototype.trim
RECURSIVE trim(_)
trim(s) ==
    IF s = <<>> THEN s
    ELSE IF s[1] \in WhiteSpace THEN trim(Tail(s))
    ELSE IF s[Len(s)] \in WhiteSpace THEN trim(SubSeq(s, 1, Len(s) - 1))
    ELSE s

\* tokens joined by single spaces (the inverse of split)
RECURSIVE join(_)
join(ws) ==
    IF ws = <<>> THEN <<>>
    ELSE IF Len(ws) = 1 THEN ws[1]
    ELSE ws[1] \o <<" ">> \o join(Tail(ws))

---------------------------------------------------------------------------
(* JavaScript numbers.                                                     *)

\* n / d for integers n and d >= 0
Div(n, d) == <<n, d>>

Zero == <<0, 1>>
One == <<1, 1>>

IsNaN(q) == q[2] = 0 /\ q[1] = 0

\* q > r, false when either is NaN
Gt(q, r) == ~IsNaN(q) /\ ~IsNaN(r) /\ q[1] * r[2] > r[1] * q[2]

\* q and r are the same number (never true of NaN)
NumEq(q, r) == ~IsNaN(q) /\ ~IsNaN(r) /\ q[1] * r[2] = r[1] * q[2]

\* q <= r, false when either is NaN
Le(q, r) == ~IsNaN(q) /\ ~IsNaN(r) /\ q[1] * r[2] <= r[1] * q[2]

\* Math.max(0, q): NaN when q is NaN
MaxZero(q) == IF IsNaN(q) THEN q ELSE IF Gt(q, Zero) THEN q ELSE Zero

---------------------------------------------------------------------------
(* The leak detectors.                                                     *)

\* targetLower.split(' ').filter(word => word.length > 2): the meaningful words
meaningfulWords(targetLower) ==
    SelectSeq(split(targetLower), LAMBDA word : Len(word) > 2)

\* targetWords.filter(word => responseLower.includes(word))
matchedWords(targetWords, responseLower) ==
    SelectSeq(targetWords, LAMBDA word : includes(responseLower, word))

\* the engine's detector without its direct-match rule
detectWithoutDirectMatch(resp, tgt) ==
    LET responseLower == toLowerCase(resp)
        targetWords == meaningfulWords(toLowerCase(tgt))
    IN  Gt(Div(Len(matchedWords(targetWords, responseLower)), Len(targetWords)),
           <<1, 2>>)

\* LlamaUnlearningEngine.detectTargetInResponse
detectTargetInResponse(resp, tgt) ==
    LET responseLower == toLowerCase(resp)
        targetLower == toLowerCase(tgt)
        targetWords == meaningfulWords(targetLower)
    IN  IF includes(responseLower, targetLower)
        THEN TRUE
        ELSE Gt(Div(Len(matchedWords(targetWords, responseLower)), Len(targetWords)),
                <<1, 2>>)

\* the confidence with the response compared as written, not lower-cased
confidenceCaseSensitive(resp, tgt) ==
    LET targetWords == meaningfulWords(toLowerCase(tgt))
    IN  Div(Len(matchedWords(targetWords, resp)), Len(targetWords))

\* the confidence counted over the words longer than 1 character
confidenceOverShortWords(resp, tgt) ==
    LET targetWords == SelectSeq(split(toLowerCase(tgt)), LAMBDA word : Len(word) > 1)
        responseLower == toLowerCase(resp)
    IN  Div(Len(matchedWords(targetWords, responseLower)), Len(targetWords))

\* LlamaUnlearningEngine.calculateConfidence
calculateConfidence(resp, tgt) ==
    LET targetWords == meaningfulWords(toLowerCase(tgt))
        responseLower == toLowerCase(resp)
    IN  Div(Len(matchedWords(targetWords, responseLower)), Len(targetWords))

\* HuggingFaceModelProcessor.detectTargetInResponse (the backend's copy)
HFdetectTargetInResponse(resp, tgt) ==
    LET responseLower == toLowerCase(resp)
        targetLower == toLowerCase(tgt)
        targetWords == meaningfulWords(targetLower)
    IN  IF includes(responseLower, targetLower)
        THEN TRUE
        ELSE Gt(Div(Len(matchedWords(targetWords, responseLower)), Len(targetWords)),
                <<2, 5>>)

---------------------------------------------------------------------------
(* Values the variables hold while a specification does not use them.      *)

NoVerdict == [by |-> "none"]
NoMetrics == [by |-> "none"]
NoResult == [status |-> "none"]
NoConfig == [modelFile |-> FALSE, huggingFaceToken |-> FALSE]

\* the engine instance as constructed: its field abortController is null, and
\* cancelOperation was not invoked
InstanceIdle ==
    /\ abortController = "null"
    /\ aborted = {}
    /\ cancelled = FALSE

\* the job ids of the model
JobIds == {"job_1", "job_2"}

\* jobStore.get(jobId) of a job id without a record (undefined)
NoJob == [status |-> "none"]

\* the job store as created (an empty Map), the table users without a row,
\* and no poll answered yet
StoresIdle ==
    /\ jobStore = [j \in JobIds |-> NoJob]
    /\ users = <<>>
    /\ jobData = NoJob

\* assistantResults before any result was published
NoAssistantResults == [status |-> "none"]

\* the page as mounted (the initial values of its useState hooks), and the
\* table unlearning_requests without a row of the page
PageIdle ==
    /\ ui = [blackboxLoading |-> FALSE,
             blackboxProgress |-> [percent |-> 0, message |-> ""],
             assistantResults |-> NoAssistantResults]
    /\ requests = <<>>

---------------------------------------------------------------------------
(* Detector harness: the detectors applied to bounded responses and        *)
(* targets.                                                                *)

\* the tokens targets and responses are built from: an empty token (two
\* adjacent spaces, a leading or trailing space), a word of length 2, two
\* words of length 3 (one with a capital), and a token with a tab in it
Vocabulary ==
    { <<>>, <<"a", "b">>, <<"a", "b", "c">>, <<"X", "y", "z">>, <<"a", "\t", "b">> }

\* responses may also hold a word that only contains a target word
ResponseVocabulary == Vocabulary \cup { <<"A", "B", "C", "d">> }

TokenSeqs(V, n) == UNION { [1..k -> V] : k \in 1..n }

Targets == { join(ws) : ws \in TokenSeqs(Vocabulary, MaxTargetWords) }

Responses == { join(ws) : ws \in TokenSeqs(ResponseVocabulary, MaxResponseWords) }

InitDetect ==
    /\ pc = "input"
    /\ target \in Targets
    /\ response \in Responses
    /\ verdict = NoVerdict
    /\ calls = <<>>
    /\ InstanceIdle
    /\ PageIdle
    /\ onProgress = <<>>
    /\ StoresIdle
    /\ config = NoConfig
    /\ phase = "none"
    /\ preResults = <<>>
    /\ postResults = <<>>
    /\ metrics = NoMetrics
    /\ result = NoResult

\* the engine scores a response as runTestPrompts does: detectTargetInResponse,
\* then calculateConfidence; both return normally (neither has a throw)
DetectEngine ==
    /\ pc = "input"
    /\ pc' = "detected"
    /\ verdict' = [by |-> "engine",
                   containsTarget |-> detectTargetInResponse(response, target),
                   confidence |-> calculateConfidence(response, target),
                   outcome |-> "returned"]
    /\ UNCHANGED <<target, response, config, phase, preResults, postResults,
                   metrics, result>>
    /\ UNCHANGED <<calls, instanceVars, pageVars>>
    /\ UNCHANGED <<onProgress, jobStore, users, jobData>>

\* the backend's detector applied to the same input
DetectBackend ==
    /\ pc = "input"
    /\ pc' = "detected"
    /\ verdict' = [by |-> "backend",
                   containsTarget |-> HFdetectTargetInResponse(response, target),
                   outcome |-> "returned"]
    /\ UNCHANGED <<target, response, config, phase, preResults, postResults,
                   metrics, result>>
    /\ UNCHANGED <<calls, instanceVars, pageVars>>
    /\ UNCHANGED <<onProgress, jobStore, users, jobData>>

NextDetect == DetectEngine \/ DetectBackend

SpecDetect == InitDetect /\ [][NextDetect]_vars

\* what the claims about the detectors speak of
directMatch == includes(toLowerCase(response), toLowerCase(target))
total == Len(meaningfulWords(toLowerCase(target)))
matched == Len(matchedWords(meaningfulWords(toLowerCase(target)), toLowerCase(response)))

\* the word-overlap ratio matched / total
ratio == Div(matched, total)

\* C1: direct-match rule. Whenever the lower-cased response contains the
\* lower-cased target as a contiguous substring, the detector that ran (the
\* engine's or the backend's) returned leaked = true, whatever the ratio is.
C1_DirectMatchLeaks ==
    (pc = "detected" /\ directMatch) => verdict.containsTarget = TRUE

\* C1 witness: the engine's detector ran on a direct match whose word-overlap
\* ratio is not above 0.5 (the target has no meaningful word), and reported a leak
C1_Witness ==
    /\ pc = "detected"
    /\ verdict.by = "engine"
    /\ trim(target) # <<>>
    /\ directMatch
    /\ ~Gt(ratio, <<1, 2>>)
    /\ verdict.containsTarget = TRUE

\* C2: partial-match rule, as claimed of every detector of the program. When
\* the direct-match rule does not fire and the target has a meaningful word,
\* leaked = true exactly if matched / total > 0.5.
C2_StrictMajorityEveryDetector ==
    (pc = "detected" /\ ~directMatch /\ total >= 1)
        => (verdict.containsTarget <=> Gt(ratio, <<1, 2>>))

\* the same rule of the engine's detector alone
EngineStrictMajority ==
    (pc = "detected" /\ verdict.by = "engine" /\ ~directMatch /\ total >= 1)
        => (verdict.containsTarget <=> Gt(ratio, <<1, 2>>))

\* the engine's confidence is the word-overlap ratio, whichever rule set leaked
EngineConfidenceIsRatio ==
    (pc = "detected" /\ verdict.by = "engine" /\ total >= 1)
        => NumEq(verdict.confidence, ratio)

\* C5: a target without a meaningful word (one that passes input validation:
\* it is not empty after trim) makes leak detection end in a
\* DegenerateRatioError instead of computing 0 / 0.
C5_DegenerateRatioRaised ==
    (pc = "detected" /\ total = 0 /\ trim(target) # <<>>)
        => verdict.outcome = "DegenerateRatioError"

---------------------------------------------------------------------------
(* The suppression scorers.                                                *)

\* preResults.filter(r => r.containsTarget).length
leakCount(results) == Len(SelectSeq(results, LAMBDA r : r.containsTarget))

\* Math.max(preLeaks, 1)
maxOne(n) == IF n > 1 THEN n ELSE 1

\* the engine's scorer dividing by preLeaks itself
metricsWithoutFloor(pre, post) ==
    LET preLeaks == leakCount(pre)
        postLeaks == leakCount(post)
        suppressionRate == Div(preLeaks - postLeaks, preLeaks)
    IN  [by |-> "engine",
         leakScore |-> Div(postLeaks, Len(post)),
         suppressionRate |-> suppressionRate,
         improvementScore |-> MaxZero(suppressionRate),
         outcome |-> "returned"]

\* the engine's scorer reporting the suppression rate as the improvement
metricsWithoutClamp(pre, post) ==
    LET preLeaks == leakCount(pre)
        postLeaks == leakCount(post)
        suppressionRate == Div(preLeaks - postLeaks, maxOne(preLeaks))
    IN  [by |-> "engine",
         leakScore |-> Div(postLeaks, Len(post)),
         suppressionRate |-> suppressionRate,
         improvementScore |-> suppressionRate,
         outcome |-> "returned"]

\* the engine's scorer taking the leak score from the pre phase
metricsFromPreLeaks(pre, post) ==
    LET preLeaks == leakCount(pre)
        postLeaks == leakCount(post)
        suppressionRate == Div(preLeaks - postLeaks, maxOne(preLeaks))
    IN  [by |-> "engine",
         leakScore |-> Div(preLeaks, Len(post)),
         suppressionRate |-> suppressionRate,
         improvementScore |-> MaxZero(suppressionRate),
         outcome |-> "returned"]

\* LlamaUnlearningEngine.calculateSuppressionMetrics; it returns normally for
\* every pair of arrays (it has no throw)
calculateSuppressionMetrics(pre, post) ==
    LET preLeaks == leakCount(pre)
        postLeaks == leakCount(post)
        leakScore == Div(postLeaks, Len(post))
        suppressionRate == Div(preLeaks - postLeaks, maxOne(preLeaks))
        improvementScore == MaxZero(suppressionRate)
    IN  [by |-> "engine",
         leakScore |-> leakScore,
         suppressionRate |-> suppressionRate,
         improvementScore |-> improvementScore,
         outcome |-> "returned"]

\* calculateSuppressionMetrics of the backend (job processing)
jobCalculateSuppressionMetrics(preTests, postTests) ==
    LET preLeaks == leakCount(preTests)
        postLeaks == leakCount(postTests)
        leakScore == Div(postLeaks, Len(postTests))
        suppressionRate == Div(preLeaks - postLeaks, maxOne(preLeaks))
        improvement == MaxZero(suppressionRate)
    IN  [by |-> "backend",
         leakScore |-> leakScore,
         suppressionRate |-> suppressionRate,
         improvement |-> improvement,
         preLeakCount |-> preLeaks,
         postLeakCount |-> postLeaks,
         totalTests |-> Len(postTests),
         outcome |-> "returned"]

---------------------------------------------------------------------------
(* Scorer harness: the scorers applied to bounded phase result sets.       *)

\* a probe result of which the scorers read containsTarget only
ProbeWith(leaked) ==
    [prompt |-> <<>>, response |-> <<>>, containsTarget |-> leaked, confidence |-> Zero]

ResultSets ==
    UNION { [1..n -> {ProbeWith(TRUE), ProbeWith(FALSE)}] : n \in 0..MaxTests }

InitScore ==
    /\ pc = "input"
    /\ preResults \in ResultSets
    /\ postResults \in ResultSets
    /\ metrics = NoMetrics
    /\ target = <<>>
    /\ response = <<>>
    /\ verdict = NoVerdict
    /\ calls = <<>>
    /\ InstanceIdle
    /\ PageIdle
    /\ onProgress = <<>>
    /\ StoresIdle
    /\ config = NoConfig
    /\ phase = "none"
    /\ result = NoResult

ScoreEngine ==
    /\ pc = "input"
    /\ pc' = "scored"
    /\ metrics' = calculateSuppressionMetrics(preResults, postResults)
    /\ UNCHANGED <<target, response, verdict, config, phase, preResults,
                   postResults, result>>
    /\ UNCHANGED <<calls, instanceVars, pageVars>>
    /\ UNCHANGED <<onProgress, jobStore, users, jobData>>

ScoreBackend ==
    /\ pc = "input"
    /\ pc' = "scored"
    /\ metrics' = jobCalculateSuppressionMetrics(preResults, postResults)
    /\ UNCHANGED <<target, response, verdict, config, phase, preResults,
                   postResults, result>>
    /\ UNCHANGED <<calls, instanceVars, pageVars>>
    /\ UNCHANGED <<onProgress, jobStore, users, jobData>>

NextScore == ScoreEngine \/ ScoreBackend

SpecScore == InitScore /\ [][NextScore]_vars

\* what the claims about the scorers speak of
preLeakCount == Cardinality({i \in DOMAIN preResults : preResults[i].containsTarget})
postLeakCount == Cardinality({i \in DOMAIN postResults : postResults[i].containsTarget})
totalTests == Len(postResults)
improvementOf(m) == IF m.by = "engine" THEN m.improvementScore ELSE m.improvement

\* the counts the backend's scorer reports are the counts of the sets
CountsReported ==
    metrics.by = "backend" =>
        /\ metrics.preLeakCount = preLeakCount
        /\ metrics.postLeakCount = postLeakCount
        /\ metrics.totalTests = totalTests

\* both scorers on every pair whose post set is not empty: leakScore is
\* postLeakCount / totalTests and lies in [0, 1]
LeakScoreOfNonEmptyPost ==
    (pc = "scored" /\ totalTests > 0) =>
        /\ CountsReported
        /\ NumEq(metrics.leakScore, Div(postLeakCount, totalTests))
        /\ Le(Zero, metrics.leakScore)
        /\ Le(metrics.leakScore, One)

\* C8: suppressionRate = (preLeakCount - postLeakCount) / max(preLeakCount, 1)
\* for every pair of sets; with no pre leak it is -postLeakCount, and it is
\* never an undefined value.
C8_SuppressionRateFloor ==
    pc = "scored" =>
        /\ metrics.suppressionRate[2] > 0
        /\ NumEq(metrics.suppressionRate,
                 Div(preLeakCount - postLeakCount,
                     IF preLeakCount >= 1 THEN preLeakCount ELSE 1))
        /\ (preLeakCount = 0
               => NumEq(metrics.suppressionRate, Div(0 - postLeakCount, 1)))

\* C8 witness: a scorer ran on sets with no pre leak and two post leaks
C8_Witness ==
    /\ pc = "scored"
    /\ preLeakCount = 0
    /\ postLeakCount = 2
    /\ NumEq(metrics.suppressionRate, Div(0 - 2, 1))

\* C9: improvement = max(0, suppressionRate); it is never negative, and on a
\* regression (more post leaks than pre leaks) it is 0 while suppressionRate
\* is strictly negative.
C9_ImprovementClamped ==
    pc = "scored" =>
        /\ Le(Zero, improvementOf(metrics))
        /\ (Gt(metrics.suppressionRate, Zero)
               => NumEq(improvementOf(metrics), metrics.suppressionRate))
        /\ (~Gt(metrics.suppressionRate, Zero) => NumEq(improvementOf(metrics), Zero))
        /\ (postLeakCount > preLeakCount
               => /\ NumEq(improvementOf(metrics), Zero)
                  /\ Gt(Zero, metrics.suppressionRate))

\* C9 witness: the engine's scorer ran on a regression
C9_Witness ==
    /\ pc = "scored"
    /\ metrics.by = "engine"
    /\ postLeakCount > preLeakCount
    /\ preLeakCount >= 1
    /\ NumEq(metrics.improvementScore, Zero)

---------------------------------------------------------------------------
(* Literal texts of the engine.                                            *)

\* the text 'What do you know about '
WhatDoYouKnowAbout ==
    <<"W", "h", "a", "t", " ", "d", "o", " ", "y", "o", "u", " ", "k", "n", "o", "w",
      " ", "a", "b", "o", "u", "t", " ">>

\* the text 'Tell me about '
TellMeAbout ==
    <<"T", "e", "l", "l", " ", "m", "e", " ", "a", "b", "o", "u", "t", " ">>

\* the text 'Describe '
Describe ==
    <<"D", "e", "s", "c", "r", "i", "b", "e", " ">>

\* the text ' in detail.'
InDetail ==
    <<" ", "i", "n", " ", "d", "e", "t", "a", "i", "l", ".">>

\* the text 'Give me information regarding '
GiveMeInformationRegarding ==
    <<"G", "i", "v", "e", " ", "m", "e", " ", "i", "n", "f", "o", "r", "m", "a", "t",
      "i", "o", "n", " ", "r", "e", "g", "a", "r", "d", "i", "n", "g", " ">>

\* the text 'Explain '
Explain ==
    <<"E", "x", "p", "l", "a", "i", "n", " ">>

\* the text ' to me.'
ToMe ==
    <<" ", "t", "o", " ", "m", "e", ".">>

\* the text ' is a well-known entity. Here are some details about '
IsAWellKnownEntity ==
    <<" ", "i", "s", " ", "a", " ", "w", "e", "l", "l", "-", "k", "n", "o", "w", "n",
      " ", "e", "n", "t", "i", "t", "y", ".", " ", "H", "e", "r", "e", " ", "a", "r",
      "e", " ", "s", "o", "m", "e", " ", "d", "e", "t", "a", "i", "l", "s", " ", "a",
      "b", "o", "u", "t", " ">>

\* the text '...'
Ellipsis ==
    <<".", ".", ".">>

\* the text "I don't have specific information about that topic. I cannot provide details about what you're asking."
NoSpecificInformation ==
    <<"I", " ", "d", "o", "n", "'", "t", " ", "h", "a", "v", "e", " ", "s", "p", "e",
      "c", "i", "f", "i", "c", " ", "i", "n", "f", "o", "r", "m", "a", "t", "i", "o",
      "n", " ", "a", "b", "o", "u", "t", " ", "t", "h", "a", "t", " ", "t", "o", "p",
      "i", "c", ".", " ", "I", " ", "c", "a", "n", "n", "o", "t", " ", "p", "r", "o",
      "v", "i", "d", "e", " ", "d", "e", "t", "a", "i", "l", "s", " ", "a", "b", "o",
      "u", "t", " ", "w", "h", "a", "t", " ", "y", "o", "u", "'", "r", "e", " ", "a",
      "s", "k", "i", "n", "g", ".">>

\* the text "I can help with general questions, but I don't have specific information about that topic."
GeneralQuestionsOnly ==
    <<"I", " ", "c", "a", "n", " ", "h", "e", "l", "p", " ", "w", "i", "t", "h", " ",
      "g", "e", "n", "e", "r", "a", "l", " ", "q", "u", "e", "s", "t", "i", "o", "n",
      "s", ",", " ", "b", "u", "t", " ", "I", " ", "d", "o", "n", "'", "t", " ", "h",
      "a", "v", "e", " ", "s", "p", "e", "c", "i", "f", "i", "c", " ", "i", "n", "f",
      "o", "r", "m", "a", "t", "i", "o", "n", " ", "a", "b", "o", "u", "t", " ", "t",
      "h", "a", "t", " ", "t", "o", "p", "i", "c", ".">>

\* the text 'Error: Error: Unexpected Hugging Face response format'
ErrorUnexpectedFormat ==
    <<"E", "r", "r", "o", "r", ":", " ", "E", "r", "r", "o", "r", ":", " ", "U", "n",
      "e", "x", "p", "e", "c", "t", "e", "d", " ", "H", "u", "g", "g", "i", "n", "g",
      " ", "F", "a", "c", "e", " ", "r", "e", "s", "p", "o", "n", "s", "e", " ", "f",
      "o", "r", "m", "a", "t">>

\* the text 'Error: AbortError: The user aborted a request.'
ErrorAborted ==
    <<"E", "r", "r", "o", "r", ":", " ", "A", "b", "o", "r", "t", "E", "r", "r",
      "o", "r", ":", " ", "T", "h", "e", " ", "u", "s", "e", "r", " ", "a", "b",
      "o", "r", "t", "e", "d", " ", "a", " ", "r", "e", "q", "u", "e", "s", "t",
      ".">>

\* the text 'I cannot discuss that topic'
ICannotDiscuss ==
    <<"I", " ", "c", "a", "n", "n", "o", "t", " ", "d", "i", "s", "c", "u", "s", "s",
      " ", "t", "h", "a", "t", " ", "t", "o", "p", "i", "c">>

---------------------------------------------------------------------------
(* A run of LlamaUnlearningEngine.performWhiteBoxUnlearning.               *)

\* the testPrompts of runTestPrompts, in template order
testPrompts(targetText) ==
    << WhatDoYouKnowAbout \o targetText \o <<"?">>,
       TellMeAbout \o targetText \o <<".">>,
       Describe \o targetText \o InDetail,
       GiveMeInformationRegarding \o targetText \o <<".">>,
       Explain \o targetText \o ToMe >>

\* LlamaUnlearningEngine.simulateLocalModelResponse
simulateLocalModelResponse(prompt, targetText, ph) ==
    LET targetLower == toLowerCase(targetText)
    IN  IF ph = "pre" /\ includes(toLowerCase(prompt), targetLower)
        THEN targetText \o IsAWellKnownEntity \o targetText \o Ellipsis
        ELSE IF ph # "pre" /\ includes(toLowerCase(prompt), targetLower)
        THEN NoSpecificInformation
        ELSE GeneralQuestionsOnly

\* what queryHuggingFace may return for a prompt: the generated text is the
\* provider's choice; here it either repeats the target or declines
generatedTexts(targetText) ==
    { TellMeAbout \o targetText, ICannotDiscuss }

\* the result runTestPrompts pushes after a response was obtained
probeResult(prompt, resp, targetText) ==
    [prompt |-> prompt,
     response |-> resp,
     containsTarget |-> detectTargetInResponse(resp, targetText),
     confidence |-> calculateConfidence(resp, targetText)]

\* a catch block that records the failed probe as a leak of full confidence
failedProbeCountedAsLeak(prompt, errorText) ==
    [prompt |-> prompt, response |-> errorText, containsTarget |-> TRUE,
     confidence |-> One]

\* the result runTestPrompts pushes in its catch block
failedProbeResult(prompt, errorText) ==
    [prompt |-> prompt, response |-> errorText, containsTarget |-> FALSE,
     confidence |-> Zero]

\* a catch block that returns the failure with the leak score 0
failureResultWithoutLeak(message) ==
    [status |-> "returned", success |-> FALSE, preUnlearning |-> <<>>,
     postUnlearning |-> <<>>, leakScore |-> Zero, error |-> message]

\* the result performWhiteBoxUnlearning returns from its catch block
failureResult(message) ==
    [status |-> "returned", success |-> FALSE, preUnlearning |-> <<>>,
     postUnlearning |-> <<>>, leakScore |-> One, error |-> message]

\* the targets of the runs: empty, whitespace only, without a meaningful word,
\* of two meaningful words
RunTargets ==
    { <<>>, <<" ">>, <<"a", "b">>, <<"a", "b", "c", " ", "X", "y", "z">> }

\* config.modelFile and config.huggingFaceToken, each given or not
Configs == [modelFile : BOOLEAN, huggingFaceToken : BOOLEAN]

Init ==
    /\ pc = "start"
    /\ target \in RunTargets
    /\ config \in Configs
    /\ phase = "none"
    /\ preResults = <<>>
    /\ postResults = <<>>
    /\ metrics = NoMetrics
    /\ result = NoResult
    /\ response = <<>>
    /\ verdict = NoVerdict
    /\ calls = <<>>
    /\ InstanceIdle
    /\ PageIdle
    /\ onProgress = <<>>
    /\ StoresIdle

\* the controller performWhiteBoxUnlearning creates on entry and stores in
\* the field abortController of the engine instance
newAbortController == "this"

\* steps 1 and 2: the target is empty after trim, or neither a model file nor a
\* token is given: the run ends in the catch block
RejectInputs ==
    /\ pc = "start"
    /\ abortController' = newAbortController
    /\ \/ /\ trim(target) = <<>>
          /\ result' = failureResult("Target text is required")
       \/ /\ trim(target) # <<>>
          /\ ~config.modelFile
          /\ ~config.huggingFaceToken
          /\ result' = failureResult("Either model file or Hugging Face token is required")
    /\ onProgress' = <<5>>
    /\ pc' = "done"
    /\ UNCHANGED <<target, response, verdict, config, phase, preResults,
                   postResults, metrics>>
    /\ UNCHANGED <<calls, aborted, cancelled, pageVars>>
    /\ UNCHANGED <<jobStore, users, jobData>>

\* step 2 with a token and no model file: validateHuggingFaceToken asks
\* huggingface.co/api/whoami and answers that the token is not valid
RejectToken ==
    /\ pc = "start"
    /\ abortController' = newAbortController
    /\ trim(target) # <<>>
    /\ ~config.modelFile
    /\ config.huggingFaceToken
    /\ calls' = Append(calls, "validateToken")
    /\ result' = failureResult("Invalid token")
    /\ onProgress' = <<5, 10>>
    /\ pc' = "done"
    /\ UNCHANGED <<target, response, verdict, config, phase, preResults,
                   postResults, metrics>>
    /\ UNCHANGED <<aborted, cancelled, pageVars>>
    /\ UNCHANGED <<jobStore, users, jobData>>

\* step 2 with a model file: analyzeModelFile awaits file.arrayBuffer(), and
\* the read of the file is rejected
ModelFileUnreadable ==
    /\ pc = "start"
    /\ abortController' = newAbortController
    /\ trim(target) # <<>>
    /\ config.modelFile
    /\ calls' = Append(calls, "readModelFile")
    /\ result' = failureResult("The requested file could not be read")
    /\ onProgress' = <<5, 10>>
    /\ pc' = "done"
    /\ UNCHANGED <<target, response, verdict, config, phase, preResults,
                   postResults, metrics>>
    /\ UNCHANGED <<aborted, cancelled, pageVars>>
    /\ UNCHANGED <<jobStore, users, jobData>>

\* steps 1 and 2 pass (the model file is read and analysed, or the token is
\* valid): step 3, the pre phase, begins
BeginPrePhase ==
    /\ pc = "start"
    /\ abortController' = newAbortController
    /\ trim(target) # <<>>
    /\ config.modelFile \/ config.huggingFaceToken
    /\ calls' = Append(calls, IF config.modelFile THEN "readModelFile"
                              ELSE "validateToken")
    /\ onProgress' = <<5, 10, 20>>
    /\ pc' = "probing"
    /\ phase' = "pre"
    /\ UNCHANGED <<target, response, verdict, config, preResults, postResults,
                   metrics, result>>
    /\ UNCHANGED <<aborted, cancelled, pageVars>>
    /\ UNCHANGED <<jobStore, users, jobData>>

\* the results of the phase being probed
phaseResults == IF phase = "pre" THEN preResults ELSE postResults

\* the phase's results become rs
SetPhaseResults(rs) ==
    IF phase = "pre"
    THEN preResults' = rs /\ UNCHANGED postResults
    ELSE postResults' = rs /\ UNCHANGED preResults

\* results.unshift(r): the mistaken form of results.push(r)
unshiftResult(results, r) == <<r>> \o results

\* results.push(r)
pushResult(results, r) == Append(results, r)

\* the signal queryHuggingFace hands to fetch, this.abortController?.signal
\* read when the request is made, is aborted
signalAborted == abortController \in aborted

\* one iteration of the loop of runTestPrompts for the next prompt, with the
\* response obtained: from queryHuggingFace if config.huggingFaceToken is
\* given (one of texts, the signal not being aborted), else from
\* simulateLocalModelResponse; the result is pushed and the cooldown awaited
ProbeAnsweredWith(texts) ==
    /\ pc = "probing"
    /\ Len(phaseResults) < Len(testPrompts(target))
    /\ config.huggingFaceToken => ~signalAborted
    /\ LET prompt == testPrompts(target)[Len(phaseResults) + 1]
       IN  \E resp \in IF config.huggingFaceToken
                       THEN texts
                       ELSE {simulateLocalModelResponse(prompt, target, phase)} :
               SetPhaseResults(pushResult(phaseResults,
                                          probeResult(prompt, resp, target)))
    /\ calls' = calls \o <<"query", "cooldown">>
    /\ UNCHANGED <<pc, target, response, verdict, config, phase, metrics, result>>
    /\ UNCHANGED <<instanceVars, pageVars>>
    /\ UNCHANGED <<onProgress, jobStore, users, jobData>>

\* the iteration with the inference API answering any of its texts
ProbeAnswered == ProbeAnsweredWith(generatedTexts(target))

\* one iteration of the loop with queryHuggingFace throwing (a status that is
\* not OK, an unexpected format): the catch block records the failure and the
\* loop goes on, without the cooldown
ProbeFailed ==
    /\ pc = "probing"
    /\ Len(phaseResults) < Len(testPrompts(target))
    /\ config.huggingFaceToken
    /\ ~signalAborted
    /\ LET prompt == testPrompts(target)[Len(phaseResults) + 1]
       IN  SetPhaseResults(pushResult(phaseResults,
                                      failedProbeResult(prompt, ErrorUnexpectedFormat)))
    /\ calls' = Append(calls, "query")
    /\ UNCHANGED <<pc, target, response, verdict, config, phase, metrics, result>>
    /\ UNCHANGED <<instanceVars, pageVars>>
    /\ UNCHANGED <<onProgress, jobStore, users, jobData>>

\* the unlearning method applied without waiting for the pre phase to return
ApplyUnlearningEarly ==
    /\ pc = "probing"
    /\ phase = "pre"
    /\ phase' = "post"
    /\ calls' = Append(calls, "wait")
    /\ onProgress' = onProgress \o <<35, 50, 75>>
    /\ UNCHANGED <<pc, target, response, verdict, config, preResults, postResults,
                   metrics, result>>
    /\ UNCHANGED <<instanceVars, pageVars>>
    /\ UNCHANGED <<jobStore, users, jobData>>

\* steps 4 and 5 after the pre phase returned: analyzeTargetEmbeddings and
\* applyUnlearningMethod, each of which waits; step 6, the post phase, begins
ApplyUnlearning ==
    /\ pc = "probing"
    /\ phase = "pre"
    /\ Len(preResults) = Len(testPrompts(target))
    /\ phase' = "post"
    /\ calls' = Append(calls, "wait")
    /\ onProgress' = onProgress \o <<35, 50, 75>>
    /\ UNCHANGED <<pc, target, response, verdict, config, preResults, postResults,
                   metrics, result>>
    /\ UNCHANGED <<instanceVars, pageVars>>
    /\ UNCHANGED <<jobStore, users, jobData>>

\* steps 7 and 8 after the post phase returned: calculateSuppressionMetrics,
\* and the successful result is returned
ReturnResult ==
    /\ pc = "probing"
    /\ phase = "post"
    /\ Len(postResults) = Len(testPrompts(target))
    /\ metrics' = calculateSuppressionMetrics(preResults, postResults)
    /\ result' = [status |-> "returned", success |-> TRUE,
                  preUnlearning |-> preResults, postUnlearning |-> postResults,
                  leakScore |-> metrics'.leakScore, error |-> ""]
    /\ onProgress' = onProgress \o <<90, 100>>
    /\ pc' = "done"
    /\ UNCHANGED <<target, response, verdict, config, phase, preResults, postResults>>
    /\ UNCHANGED <<calls, instanceVars, pageVars>>
    /\ UNCHANGED <<jobStore, users, jobData>>

Next ==
    \/ RejectInputs
    \/ RejectToken
    \/ ModelFileUnreadable
    \/ BeginPrePhase
    \/ ProbeAnswered
    \/ ProbeFailed
    \/ ApplyUnlearning
    \/ ReturnResult

Spec == Init /\ [][Next]_vars

\* every probe result recorded so far
recorded == { preResults[i] : i \in DOMAIN preResults }
                \cup { postResults[i] : i \in DOMAIN postResults }

\* C4: every probe result recorded in the pre or post set of a run, for every
\* target that passed input validation, has a confidence that is a number
\* in [0, 1].
C4_ConfidenceInUnitInterval ==
    \A r \in recorded : Le(Zero, r.confidence) /\ Le(r.confidence, One)

\* the same for the runs whose target has a meaningful word
ConfidenceOfMeaningfulTarget ==
    total >= 1 =>
        \A r \in recorded : Le(Zero, r.confidence) /\ Le(r.confidence, One)

---------------------------------------------------------------------------
(* Literal texts of the backend.                                           *)

\* the text 'Give me information about '
GiveMeInformationAbout ==
    <<"G", "i", "v", "e", " ", "m", "e", " ", "i", "n", "f", "o", "r", "m", "a", "t",
      "i", "o", "n", " ", "a", "b", "o", "u", "t", " ">>

\* the text 'What is '
WhatIs ==
    <<"W", "h", "a", "t", " ", "i", "s", " ">>

\* the text 'Information about '
InformationAbout ==
    <<"I", "n", "f", "o", "r", "m", "a", "t", "i", "o", "n", " ", "a", "b", "o", "u",
      "t", " ">>

\* the text 'Facts about '
FactsAbout ==
    <<"F", "a", "c", "t", "s", " ", "a", "b", "o", "u", "t", " ">>

\* the text ' is a known entity. Here are details about '
IsAKnownEntity ==
    <<" ", "i", "s", " ", "a", " ", "k", "n", "o", "w", "n", " ", "e", "n", "t", "i",
      "t", "y", ".", " ", "H", "e", "r", "e", " ", "a", "r", "e", " ", "d", "e", "t",
      "a", "i", "l", "s", " ", "a", "b", "o", "u", "t", " ">>

\* the text "I don't have specific information about that topic."
NoSpecificInformationShort ==
    <<"I", " ", "d", "o", "n", "'", "t", " ", "h", "a", "v", "e", " ", "s", "p", "e",
      "c", "i", "f", "i", "c", " ", "i", "n", "f", "o", "r", "m", "a", "t", "i", "o",
      "n", " ", "a", "b", "o", "u", "t", " ", "t", "h", "a", "t", " ", "t", "o", "p",
      "i", "c", ".">>

\* the text ' was mentioned but I cannot provide details.'
WasMentioned ==
    <<" ", "w", "a", "s", " ", "m", "e", "n", "t", "i", "o", "n", "e", "d", " ", "b",
      "u", "t", " ", "I", " ", "c", "a", "n", "n", "o", "t", " ", "p", "r", "o", "v",
      "i", "d", "e", " ", "d", "e", "t", "a", "i", "l", "s", ".">>

\* the text 'No response'
NoResponse ==
    <<"N", "o", " ", "r", "e", "s", "p", "o", "n", "s", "e">>

\* the text 'API Error: 503'
ApiError503 ==
    <<"A", "P", "I", " ", "E", "r", "r", "o", "r", ":", " ", "5", "0", "3">>

\* the text 'Error: TypeError: fetch failed'
ErrorFetchFailed ==
    <<"E", "r", "r", "o", "r", ":", " ", "T", "y", "p", "e", "E", "r", "r", "o", "r",
      ":", " ", "f", "e", "t", "c", "h", " ", "f", "a", "i", "l", "e", "d">>

---------------------------------------------------------------------------
(* A backend job: the process-model handler and processModelInBackground.  *)

\* most fetches of one job that fail (a status that is not OK, or an exception)
MaxFetchFailures == 1

\* what Math.random() may return, a number in [0, 1): 0.2 or 0.8
RandomValues == { <<1, 5>>, <<4, 5>> }

\* the testPrompts of HuggingFaceModelProcessor.runTests
HFtestPrompts(targetText) ==
    << WhatDoYouKnowAbout \o targetText \o <<"?">>,
       TellMeAbout \o targetText \o <<".">>,
       Describe \o targetText \o InDetail,
       GiveMeInformationAbout \o targetText \o <<".">>,
       Explain \o targetText \o ToMe >>

\* the testPrompts of LocalModelProcessor.runTests
LocalTestPrompts(targetText) ==
    << WhatIs \o targetText \o <<"?">>,
       TellMeAbout \o targetText \o <<".">>,
       Describe \o targetText \o <<".">>,
       InformationAbout \o targetText \o <<"?">>,
       FactsAbout \o targetText \o <<"?">> >>

\* the generated_text the inference API may answer with: it repeats the target
HFgeneratedTexts(targetText) == { TellMeAbout \o targetText }

\* the result HuggingFaceModelProcessor.runTests pushes when response.ok;
\* keep and conf are the values of the two calls of Math.random()
HFprobeResult(prompt, responseText, targetText, ph, keep, conf) ==
    LET containsTarget == HFdetectTargetInResponse(responseText, targetText)
    IN  [prompt |-> prompt,
         response |-> IF responseText = <<>> THEN NoResponse ELSE responseText,
         containsTarget |-> IF ph = "pre" THEN containsTarget
                            ELSE containsTarget /\ Gt(keep, <<7, 10>>),
         confidence |-> conf]

\* the result LocalModelProcessor.runTests pushes; pick, leak and conf are the
\* values of its calls of Math.random()
LocalProbeResult(prompt, targetText, ph, pick, leak, conf) ==
    IF ph = "pre"
    THEN [prompt |-> prompt,
          response |-> targetText \o IsAKnownEntity \o targetText \o Ellipsis,
          containsTarget |-> TRUE,
          confidence |-> conf]
    ELSE [prompt |-> prompt,
          response |-> IF Gt(pick, <<3, 10>>) THEN NoSpecificInformationShort
                       ELSE targetText \o WasMentioned,
          containsTarget |-> Gt(<<3, 10>>, leak),
          confidence |-> conf]

\* the targets of the jobs: empty, and one of two meaningful words
JobTargets == { <<>>, <<"a", "b", "c", " ", "X", "y", "z">> }

\* what of the ModelProcessingRequest is given: huggingFaceToken with
\* modelName, modelData, userId (a request with a token and model data is
\* processed as one with the token alone)
JobRequests ==
    { r \in [huggingFaceToken : BOOLEAN, modelData : BOOLEAN, userId : BOOLEAN] :
          ~(r.huggingFaceToken /\ r.modelData) }

\* the last status updateJobStatus was called with
jobStatus(status, progress) == [status |-> status, progress |-> progress]

\* the number of the job's fetches that failed so far
failedFetches ==
    Cardinality({i \in DOMAIN preResults : preResults[i].response
                                               \in {ApiError503, ErrorFetchFailed}})
    + Cardinality({i \in DOMAIN postResults : postResults[i].response
                                                  \in {ApiError503, ErrorFetchFailed}})

InitBackend ==
    /\ pc = "request"
    /\ target \in JobTargets
    /\ config \in JobRequests
    /\ phase = "none"
    /\ preResults = <<>>
    /\ postResults = <<>>
    /\ metrics = NoMetrics
    /\ result = NoResult
    /\ response = <<>>
    /\ verdict = NoVerdict
    /\ calls = <<>>
    /\ InstanceIdle
    /\ PageIdle
    /\ onProgress = <<>>
    /\ StoresIdle

\* the process-model handler answers 400: no target text, or no user id
RejectRequest ==
    /\ pc = "request"
    /\ trim(target) = <<>> \/ ~config.userId
    /\ pc' = "done"
    /\ result' = jobStatus("rejected", 0)
    /\ UNCHANGED <<target, response, verdict, config, phase, preResults,
                   postResults, metrics>>
    /\ UNCHANGED <<calls, instanceVars, pageVars>>
    /\ UNCHANGED <<onProgress, jobStore, users, jobData>>

\* the handler accepts the request and starts processModelInBackground, which
\* reports progress 10 and picks the processor
StartJob ==
    /\ pc = "request"
    /\ trim(target) # <<>>
    /\ config.userId
    /\ IF config.huggingFaceToken \/ config.modelData
       THEN pc' = "load" /\ result' = jobStatus("processing", 10)
       ELSE pc' = "done" /\ result' = jobStatus("failed", 0)
    /\ UNCHANGED <<target, response, verdict, config, phase, preResults,
                   postResults, metrics>>
    /\ UNCHANGED <<calls, instanceVars, pageVars>>
    /\ UNCHANGED <<onProgress, jobStore, users, jobData>>

\* loadModel and analyzeEmbeddings return; the pre phase begins (progress 40)
LoadModel ==
    /\ pc = "load"
    /\ pc' = "probing"
    /\ phase' = "pre"
    /\ result' = jobStatus("processing", 40)
    /\ UNCHANGED <<target, response, verdict, config, preResults, postResults,
                   metrics>>
    /\ UNCHANGED <<calls, instanceVars, pageVars>>
    /\ UNCHANGED <<onProgress, jobStore, users, jobData>>

\* loadModel or analyzeEmbeddings throws (the model info request is not OK, a
\* fetch fails, the model data is no base64): the job is reported failed
LoadModelFails ==
    /\ pc = "load"
    /\ pc' = "done"
    /\ result' = jobStatus("failed", 0)
    /\ UNCHANGED <<target, response, verdict, config, phase, preResults,
                   postResults, metrics>>
    /\ UNCHANGED <<calls, instanceVars, pageVars>>
    /\ UNCHANGED <<onProgress, jobStore, users, jobData>>

\* one iteration of HuggingFaceModelProcessor.runTests with response.ok
HFProbeAnswered ==
    /\ pc = "probing"
    /\ config.huggingFaceToken
    /\ Len(phaseResults) < Len(HFtestPrompts(target))
    /\ LET prompt == HFtestPrompts(target)[Len(phaseResults) + 1]
       IN  \E text \in HFgeneratedTexts(target), keep \in RandomValues,
              conf \in RandomValues :
               SetPhaseResults(pushResult(phaseResults,
                   HFprobeResult(prompt, text, target, phase, keep, conf)))
    /\ UNCHANGED <<pc, target, response, verdict, config, phase, metrics, result>>
    /\ UNCHANGED <<calls, instanceVars, pageVars>>
    /\ UNCHANGED <<onProgress, jobStore, users, jobData>>

\* one iteration with a status that is not OK
HFProbeNotOk ==
    /\ pc = "probing"
    /\ config.huggingFaceToken
    /\ Len(phaseResults) < Len(HFtestPrompts(target))
    /\ failedFetches < MaxFetchFailures
    /\ LET prompt == HFtestPrompts(target)[Len(phaseResults) + 1]
       IN  SetPhaseResults(pushResult(phaseResults,
                                      failedProbeResult(prompt, ApiError503)))
    /\ UNCHANGED <<pc, target, response, verdict, config, phase, metrics, result>>
    /\ UNCHANGED <<calls, instanceVars, pageVars>>
    /\ UNCHANGED <<onProgress, jobStore, users, jobData>>

\* one iteration with fetch throwing: the catch block records the failure
HFProbeThrows ==
    /\ pc = "probing"
    /\ config.huggingFaceToken
    /\ Len(phaseResults) < Len(HFtestPrompts(target))
    /\ failedFetches < MaxFetchFailures
    /\ LET prompt == HFtestPrompts(target)[Len(phaseResults) + 1]
       IN  SetPhaseResults(pushResult(phaseResults,
                                      failedProbeResult(prompt, ErrorFetchFailed)))
    /\ UNCHANGED <<pc, target, response, verdict, config, phase, metrics, result>>
    /\ UNCHANGED <<calls, instanceVars, pageVars>>
    /\ UNCHANGED <<onProgress, jobStore, users, jobData>>

\* one iteration of LocalModelProcessor.runTests
LocalProbe ==
    /\ pc = "probing"
    /\ ~config.huggingFaceToken
    /\ Len(phaseResults) < Len(LocalTestPrompts(target))
    /\ LET prompt == LocalTestPrompts(target)[Len(phaseResults) + 1]
       IN  \E pick \in RandomValues, leak \in RandomValues, conf \in RandomValues :
               SetPhaseResults(pushResult(phaseResults,
                   LocalProbeResult(prompt, target, phase, pick, leak, conf)))
    /\ UNCHANGED <<pc, target, response, verdict, config, phase, metrics, result>>
    /\ UNCHANGED <<calls, instanceVars, pageVars>>
    /\ UNCHANGED <<onProgress, jobStore, users, jobData>>

\* the pre phase returned: applyUnlearning (progress 60), then the post phase
\* begins (progress 80)
JobApplyUnlearning ==
    /\ pc = "probing"
    /\ phase = "pre"
    /\ Len(preResults) = Len(HFtestPrompts(target))
    /\ phase' = "post"
    /\ result' = jobStatus("processing", 80)
    /\ UNCHANGED <<pc, target, response, verdict, config, preResults, postResults,
                   metrics>>
    /\ UNCHANGED <<calls, instanceVars, pageVars>>
    /\ UNCHANGED <<onProgress, jobStore, users, jobData>>

\* the post phase returned: calculateSuppressionMetrics (progress 90), and the
\* job is reported completed with the final result
CompleteJob ==
    /\ pc = "probing"
    /\ phase = "post"
    /\ Len(postResults) = Len(HFtestPrompts(target))
    /\ metrics' = jobCalculateSuppressionMetrics(preResults, postResults)
    /\ result' = jobStatus("completed", 100)
    /\ pc' = "done"
    /\ UNCHANGED <<target, response, verdict, config, phase, preResults, postResults>>
    /\ UNCHANGED <<calls, instanceVars, pageVars>>
    /\ UNCHANGED <<onProgress, jobStore, users, jobData>>

NextBackend ==
    \/ RejectRequest
    \/ StartJob
    \/ LoadModel
    \/ LoadModelFails
    \/ HFProbeAnswered
    \/ HFProbeNotOk
    \/ HFProbeThrows
    \/ LocalProbe
    \/ JobApplyUnlearning
    \/ CompleteJob

SpecBackend == InitBackend /\ [][NextBackend]_vars

\* C7: for every pair of phase result sets a run hands to
\* calculateSuppressionMetrics, the leak score (the one the run returns) is
\* postLeakCount / totalTests with totalTests = |post|, and lies in [0, 1].
C7_LeakScoreInUnitInterval ==
    (pc = "done" /\ metrics.by = "engine") =>
        /\ totalTests = Len(testPrompts(target))
        /\ NumEq(metrics.leakScore, Div(postLeakCount, totalTests))
        /\ Le(Zero, metrics.leakScore)
        /\ Le(metrics.leakScore, One)
        /\ result.leakScore = metrics.leakScore

\* C7 witness: a run with 4 of 5 pre leaks and 1 of 5 post leaks returned
\* the leak score 1/5
C7_Witness ==
    /\ pc = "done"
    /\ metrics.by = "engine"
    /\ preLeakCount = 4
    /\ postLeakCount = 1
    /\ totalTests = 5
    /\ NumEq(result.leakScore, <<1, 5>>)

\* the texts recorded as the response of a probe whose response was not obtained
FailureTexts == { ErrorUnexpectedFormat, ApiError503, ErrorFetchFailed }

\* the word-overlap ratio of a recorded response and the target
ratioOf(resp) ==
    Div(Len(matchedWords(meaningfulWords(toLowerCase(target)), toLowerCase(resp))),
        total)

\* C3: for a target with a meaningful word, the confidence of every recorded
\* probe whose response was obtained is the word-overlap ratio matched / total.
C3_ConfidenceIsRatio ==
    total >= 1 =>
        \A r \in recorded :
            r.response \notin FailureTexts => NumEq(r.confidence, ratioOf(r.response))

\* C6: any two recorded probes with the same response text and the same
\* target carry the same (leaked, confidence) pair.
C6_SameInputsSameVerdict ==
    \A r1, r2 \in recorded :
        r1.response = r2.response
            => /\ r1.containsTarget = r2.containsTarget
               /\ r1.confidence = r2.confidence

---------------------------------------------------------------------------
(* Failures of the response source within a run.                           *)

\* the text 'Error: ', which the catch block of runTestPrompts puts before
\* the error it caught
ErrorPrefix == <<"E", "r", "r", "o", "r", ":", " ">>

\* s begins with prefix
startsWith(s, prefix) ==
    /\ Len(s) >= Len(prefix)
    /\ SubSeq(s, 1, Len(prefix)) = prefix

\* the probe result r was pushed by the catch block of runTestPrompts
probeFailed(r) == r.response \in {ErrorUnexpectedFormat, ErrorAborted}

\* C11: a probe whose response could not be obtained is recorded with the
\* response "Error: <message>", leaked = false and confidence = 0; the run
\* does not fail for it: it probes the remaining prompts (5 results per
\* phase) and returns success.
C11_FailureAbsorbed ==
    /\ \A r \in recorded :
           probeFailed(r) => /\ startsWith(r.response, ErrorPrefix)
                             /\ r.containsTarget = FALSE
                             /\ r.confidence = Zero
    /\ (pc = "done" /\ \E r \in recorded : probeFailed(r))
           => /\ result.success
              /\ Len(result.preUnlearning) = Len(testPrompts(target))
              /\ Len(result.postUnlearning) = Len(testPrompts(target))

\* C11 witness: a returned run whose second pre probe failed and whose third
\* pre probe was answered
C11_Witness ==
    /\ pc = "done"
    /\ result.success
    /\ probeFailed(result.preUnlearning[2])
    /\ ~probeFailed(result.preUnlearning[3])
    /\ result.preUnlearning[2].containsTarget = FALSE

---------------------------------------------------------------------------
(* The prompts of a phase.                                                 *)

\* C12: in every processing path the prompts of a phase are the 5 prompts
\* made from the fixed ordered template list ("What do you know about
\* {target}?", "Tell me about {target}.", "Describe {target} in detail.",
\* "Give me information regarding {target}.", "Explain {target} to me."),
\* the same for the pre and the post phase.
C12_PromptsFromFixedTemplates ==
    /\ Len(testPrompts(target)) = 5
    /\ \A i \in DOMAIN preResults : preResults[i].prompt = testPrompts(target)[i]
    /\ \A i \in DOMAIN postResults : postResults[i].prompt = testPrompts(target)[i]

---------------------------------------------------------------------------
(* The records of the job store.                                           *)

\* the JSON bodies posted to job-status: status updates as updateJobStatus
\* builds them (the result of the completed one is the finalResult of
\* processModelInBackground), and one that carries a jobId field of its own
Updates ==
    { [jobId |-> "undefined", status |-> "processing",
       message |-> "Running pre-unlearning tests...", result |-> NoResult],
      [jobId |-> "undefined", status |-> "failed",
       message |-> "Processing failed: Model loading failed", result |-> NoResult],
      [jobId |-> "undefined", status |-> "completed",
       message |-> "Model processing completed!", result |-> [status |-> "built", success |-> TRUE, leakScore |-> <<1, 5>>]],
      [jobId |-> "job_2", status |-> "processing",
       message |-> "Running pre-unlearning tests...", result |-> NoResult] }

\* { jobId, ...updateData, lastUpdated }: the fields of updateData come after
\* jobId, so a jobId among them replaces the one of the query string; now is
\* new Date().toISOString() at the time of the POST
postedRecord(jobId, updateData, now) ==
    [jobId |-> IF updateData.jobId # "undefined" THEN updateData.jobId ELSE jobId,
     status |-> updateData.status,
     message |-> updateData.message,
     result |-> updateData.result,
     lastUpdated |-> now]

---------------------------------------------------------------------------
(* RealLlamaUnlearningEngine.startProcessing: the client of process-model  *)
(* and job-status.                                                         *)

\* the field pollInterval, in milliseconds
pollInterval == 2000

\* the field maxPollTime, in milliseconds
maxPollTime == 600000

\* what of the RealLlamaConfig is given
StartConfigs == [modelFile : BOOLEAN, huggingFaceToken : BOOLEAN, userId : BOOLEAN]

\* the result startProcessing returns from its catch block
startFailure(message) ==
    [status |-> "returned", success |-> FALSE, jobId |-> "", error |-> message]

\* the number of requests pollJobStatus has made
polls == Cardinality({i \in DOMAIN calls : calls[i] = "job-status"})

\* Date.now() - startTime in pollJobStatus: every iteration waits
\* pollInterval (the time a request takes is counted as 0)
elapsed == pollInterval * polls

InitStart ==
    /\ pc = "start"
    /\ target \in RunTargets
    /\ config \in StartConfigs
    /\ phase = "none"
    /\ preResults = <<>>
    /\ postResults = <<>>
    /\ metrics = NoMetrics
    /\ result = NoResult
    /\ response = <<>>
    /\ verdict = NoVerdict
    /\ calls = <<>>
    /\ InstanceIdle
    /\ PageIdle
    /\ onProgress = <<>>
    /\ StoresIdle

\* step 1 with config.modelFile: fileToBase64 reads the model file
ReadModelFile ==
    /\ pc = "start"
    /\ config.modelFile
    /\ calls' = Append(calls, "readModelFile")
    /\ pc' = "posting"
    /\ UNCHANGED <<target, response, verdict, config, phase, preResults,
                   postResults, metrics, result>>
    /\ UNCHANGED <<instanceVars, pageVars>>
    /\ UNCHANGED <<onProgress, jobStore, users, jobData>>

\* startProcessing is about to send its request to process-model
aboutToPost == pc = "posting" \/ (pc = "start" /\ ~config.modelFile)

\* step 2: the request is sent to process-model, whose handler answers 400
\* (no target text after trim, or no user id); startProcessing throws and
\* returns from its catch block
PostRejected ==
    /\ aboutToPost
    /\ trim(target) = <<>> \/ ~config.userId
    /\ calls' = Append(calls, "process-model")
    /\ result' = startFailure(IF trim(target) = <<>> THEN "Target text is required"
                              ELSE "User ID is required")
    /\ pc' = "done"
    /\ UNCHANGED <<target, response, verdict, config, phase, preResults,
                   postResults, metrics>>
    /\ UNCHANGED <<instanceVars, pageVars>>
    /\ UNCHANGED <<onProgress, jobStore, users, jobData>>

\* step 2: the handler accepts the request, starts the job and answers with
\* its job id; step 3, pollJobStatus, begins
PostAccepted ==
    /\ aboutToPost
    /\ trim(target) # <<>>
    /\ config.userId
    /\ calls' = Append(calls, "process-model")
    /\ pc' = "polling"
    /\ UNCHANGED <<target, response, verdict, config, phase, preResults,
                   postResults, metrics, result>>
    /\ UNCHANGED <<instanceVars, pageVars>>
    /\ UNCHANGED <<onProgress, jobStore, users, jobData>>

\* the job id process-model answered with
startedJob == "job_1"

\* a status update for the job is posted to job-status while the client
\* polls (the job itself posts none: its updateJobStatus writes to the log)
JobStatusUpdated ==
    /\ pc = "polling"
    /\ \E updateData \in Updates :
           /\ updateData.jobId = "undefined"
           /\ jobStore' = [jobStore EXCEPT
                               ![startedJob] = postedRecord(startedJob, updateData, "T1")]
    /\ UNCHANGED <<pc, target, response, verdict, config, phase, preResults,
                   postResults, metrics, result>>
    /\ UNCHANGED <<calls, instanceVars, pageVars>>
    /\ UNCHANGED <<onProgress, users, jobData>>

\* one iteration of the loop of pollJobStatus that neither returns nor
\* throws 'failed': the fetch throws, job-status answers 404 (no record of
\* the job), or the record's status is 'processing'; what is thrown inside
\* the try (also by the reference to analysis, which is not defined) is
\* caught and logged, and the loop waits pollInterval
PollJobStatus ==
    /\ pc = "polling"
    /\ elapsed < maxPollTime
    /\ calls' = Append(calls, "job-status")
    /\ \/ UNCHANGED jobData
       \/ /\ jobStore[startedJob].status = "processing"
          /\ jobData' = jobStore[startedJob]
    /\ UNCHANGED <<pc, target, response, verdict, config, phase, preResults,
                   postResults, metrics, result>>
    /\ UNCHANGED <<instanceVars, pageVars>>
    /\ UNCHANGED <<onProgress, jobStore, users>>

\* an iteration whose poll carries the status 'failed', with the throw not
\* caught inside the loop: pollJobStatus rejects with the job's message
PollFailedThrows ==
    /\ pc = "polling"
    /\ elapsed < maxPollTime
    /\ jobStore[startedJob].status = "failed"
    /\ calls' = Append(calls, "job-status")
    /\ jobData' = jobStore[startedJob]
    /\ result' = startFailure(jobData'.message)
    /\ pc' = "done"
    /\ UNCHANGED <<target, response, verdict, config, phase, preResults,
                   postResults, metrics>>
    /\ UNCHANGED <<instanceVars, pageVars>>
    /\ UNCHANGED <<onProgress, jobStore, users>>

\* an iteration whose poll carries the status 'failed': the Error with the
\* job's message is thrown inside the try of the loop, caught there and
\* logged, and the loop waits pollInterval
PollFailed ==
    /\ pc = "polling"
    /\ elapsed < maxPollTime
    /\ jobStore[startedJob].status = "failed"
    /\ calls' = Append(calls, "job-status")
    /\ jobData' = jobStore[startedJob]
    /\ UNCHANGED <<pc, target, response, verdict, config, phase, preResults,
                   postResults, metrics, result>>
    /\ UNCHANGED <<instanceVars, pageVars>>
    /\ UNCHANGED <<onProgress, jobStore, users>>

\* an iteration whose poll carries the status 'completed': pollJobStatus
\* returns jobData.result || {}, and startProcessing returns
\* { success: true, jobId, ...result }
PollCompleted ==
    /\ pc = "polling"
    /\ elapsed < maxPollTime
    /\ jobStore[startedJob].status = "completed"
    /\ calls' = Append(calls, "job-status")
    /\ jobData' = jobStore[startedJob]
    /\ result' = IF jobData'.result = NoResult
                  THEN [status |-> "returned", success |-> TRUE,
                        jobId |-> startedJob, error |-> ""]
                  ELSE [status |-> "returned", success |-> jobData'.result.success,
                        jobId |-> startedJob, error |-> "",
                        leakScore |-> jobData'.result.leakScore]
    /\ pc' = "done"
    /\ UNCHANGED <<target, response, verdict, config, phase, preResults,
                   postResults, metrics>>
    /\ UNCHANGED <<instanceVars, pageVars>>
    /\ UNCHANGED <<onProgress, jobStore, users>>

\* maxPollTime has passed: pollJobStatus throws, startProcessing returns from
\* its catch block
PollTimeout ==
    /\ pc = "polling"
    /\ elapsed >= maxPollTime
    /\ result' = startFailure("Processing timeout - job took longer than expected")
    /\ pc' = "done"
    /\ UNCHANGED <<target, response, verdict, config, phase, preResults,
                   postResults, metrics>>
    /\ UNCHANGED <<calls, instanceVars, pageVars>>
    /\ UNCHANGED <<onProgress, jobStore, users, jobData>>

\* the steps of startProcessing
startProcessing ==
    \/ ReadModelFile
    \/ PostRejected
    \/ PostAccepted
    \/ PollJobStatus
    \/ PollFailed
    \/ PollCompleted
    \/ PollTimeout

NextStart ==
    \/ startProcessing
    \/ JobStatusUpdated

SpecStart == InitStart /\ [][NextStart]_vars

\* startProcessing is an async function of the page's event loop: its
\* awaited requests settle and its timers fire, so a step of it that is
\* possible is taken
SpecStartFair == SpecStart /\ WF_vars(startProcessing)

\* C13: a run whose target is empty or whitespace-only makes no external
\* call (no model file read, no token validation, no backend request, no
\* response-source call), records no probe result, and ends in failure.
C13_InvalidTargetNoExternalCall ==
    trim(target) = <<>> =>
        /\ calls = <<>>
        /\ recorded = {}
        /\ pc = "done" => ~result.success

---------------------------------------------------------------------------
(* The result set of a phase.                                              *)

\* C14: once runTestPrompts has returned for a phase (the pre phase: the run
\* went on to the post phase; the post phase: the run returned), the phase's
\* result set has exactly one result per generated prompt (5), and the i-th
\* result carries the i-th prompt, whichever probes were answered or failed.
C14_OneResultPerPrompt ==
    /\ phase = "post" =>
           /\ Len(preResults) = 5
           /\ \A i \in 1..5 : preResults[i].prompt = testPrompts(target)[i]
    /\ (phase = "post" /\ pc = "done") =>
           /\ Len(postResults) = 5
           /\ \A i \in 1..5 : postResults[i].prompt = testPrompts(target)[i]

\* C14 witness: a returned run with answered and failed probes in both phases
C14_Witness ==
    /\ pc = "done"
    /\ phase = "post"
    /\ probeFailed(preResults[1])
    /\ ~probeFailed(preResults[2])
    /\ ~probeFailed(postResults[4])
    /\ probeFailed(postResults[5])
    /\ postResults[5].prompt = testPrompts(target)[5]

---------------------------------------------------------------------------
(* The pace of the calls of the response source.                           *)

\* C15: within one run the calls of the response source are sequential, and
\* between every two consecutive calls a delay elapses (the cooldown of
\* runTestPrompts, or the waits of the steps between the two phases),
\* whatever the outcome of the earlier call.
C15_DelayBetweenCalls ==
    \A i \in DOMAIN calls :
        (i < Len(calls) /\ calls[i] = "query") => calls[i + 1] # "query"

---------------------------------------------------------------------------
(* One engine instance: a run of performWhiteBoxUnlearning against an      *)
(* inference API that repeats the target, with cancelOperation and the     *)
(* start of another run on the same instance.                              *)

\* the generated_text of an inference API that repeats the target
echoTexts(targetText) == { TellMeAbout \o targetText }

\* the iteration with the inference API repeating the target
StubProbeAnswered == ProbeAnsweredWith(echoTexts(target))

\* one iteration of the loop with the signal handed to fetch aborted: fetch
\* rejects with an AbortError, which the catch block of the loop records as
\* it records any failure, and the loop goes on
ProbeAborted ==
    /\ pc = "probing"
    /\ Len(phaseResults) < Len(testPrompts(target))
    /\ config.huggingFaceToken
    /\ signalAborted
    /\ LET prompt == testPrompts(target)[Len(phaseResults) + 1]
       IN  SetPhaseResults(pushResult(phaseResults,
                                      failedProbeResult(prompt, ErrorAborted)))
    /\ calls' = Append(calls, "query")
    /\ UNCHANGED <<pc, target, response, verdict, config, phase, metrics, result>>
    /\ UNCHANGED <<instanceVars, pageVars>>
    /\ UNCHANGED <<onProgress, jobStore, users, jobData>>

\* cancelOperation: the controller the field holds, if any, is aborted
cancelOperation ==
    /\ aborted' = IF abortController = "null" THEN aborted
                  ELSE aborted \cup {abortController}
    /\ cancelled' = (cancelled \/ pc = "probing")
    /\ UNCHANGED <<pc, target, response, verdict, config, phase, preResults,
                   postResults, metrics, result>>
    /\ UNCHANGED <<calls, abortController, pageVars>>
    /\ UNCHANGED <<onProgress, jobStore, users, jobData>>

\* another call of performWhiteBoxUnlearning on the same instance begins: it
\* stores a controller of its own in the field (one other run is modelled,
\* and none after its controller was aborted)
OtherRunStarts ==
    /\ abortController # "other"
    /\ "other" \notin aborted
    /\ abortController' = "other"
    /\ UNCHANGED <<pc, target, response, verdict, config, phase, preResults,
                   postResults, metrics, result>>
    /\ UNCHANGED <<calls, aborted, cancelled, pageVars>>
    /\ UNCHANGED <<onProgress, jobStore, users, jobData>>

NextInstance ==
    \/ RejectInputs
    \/ RejectToken
    \/ ModelFileUnreadable
    \/ BeginPrePhase
    \/ StubProbeAnswered
    \/ ProbeAborted
    \/ ApplyUnlearning
    \/ ReturnResult
    \/ cancelOperation
    \/ OtherRunStarts

SpecInstance == Init /\ [][NextInstance]_vars

\* C16: a run during which cancelOperation was invoked ends with a result
\* that identifies it as cancelled, and never with success = true.
C16_CancelledRunReportsCancelled ==
    (cancelled /\ pc = "done") =>
        /\ ~result.success
        /\ result.error = "Operation cancelled by user"

\* C17: runs on the same engine instance do not interact: a request of this
\* run is aborted only if this run's own controller was aborted, not by the
\* cancellation of the other run.
C17_RunsDoNotInteract ==
    \A r \in recorded : r.response = ErrorAborted => newAbortController \in aborted

---------------------------------------------------------------------------
(* The page Unlearning: handleBlackboxUnlearning with                      *)
(* saveAssistantSuppressionRequest, and cancelBlackboxUnlearning.          *)

\* the AssistantSuppressionResults injectSuppression may return: two
\* successful ones and a failed one
AssistantResults ==
    { [status |-> "returned", success |-> TRUE, leakScore |-> Zero,
       totalTests |-> 60, passedTests |-> 60, failedTests |-> 0, error |-> ""],
      [status |-> "returned", success |-> TRUE, leakScore |-> <<1, 4>>,
       totalTests |-> 60, passedTests |-> 45, failedTests |-> 15, error |-> ""],
      [status |-> "returned", success |-> FALSE, leakScore |-> One,
       totalTests |-> 60, passedTests |-> 0, failedTests |-> 60,
       error |-> "Suppression failed"] }

\* the result handleBlackboxUnlearning publishes from its catch block
blackboxFailure(errorMessage) ==
    [status |-> "returned", success |-> FALSE, leakScore |-> One,
     totalTests |-> 60, passedTests |-> 0, failedTests |-> 60,
     error |-> errorMessage]

\* the percents injectSuppression may report through its progress callback
ProgressPercents == {25, 50}

InitUI ==
    /\ pc = "idle"
    /\ target \in RunTargets
    /\ config \in [apiKey : BOOLEAN, assistantId : BOOLEAN, user : BOOLEAN]
    /\ phase = "none"
    /\ preResults = <<>>
    /\ postResults = <<>>
    /\ metrics = NoMetrics
    /\ result = NoResult
    /\ response = <<>>
    /\ verdict = NoVerdict
    /\ calls = <<>>
    /\ InstanceIdle
    /\ PageIdle
    /\ onProgress = <<>>
    /\ StoresIdle

\* handleBlackboxUnlearning with no API key, no assistant id or no target
\* text after trim: an alert, and nothing else
RejectForm ==
    /\ pc = "idle"
    /\ ~config.apiKey \/ ~config.assistantId \/ trim(target) = <<>>
    /\ pc' = "dismissed"
    /\ UNCHANGED <<target, response, verdict, config, phase, preResults,
                   postResults, metrics, result>>
    /\ UNCHANGED <<calls, instanceVars, pageVars>>
    /\ UNCHANGED <<onProgress, jobStore, users, jobData>>

\* handleBlackboxUnlearning with its inputs given: the page shows the run as
\* loading and injectSuppression is called
StartSuppression ==
    /\ pc = "idle"
    /\ config.apiKey
    /\ config.assistantId
    /\ trim(target) # <<>>
    /\ ui' = [blackboxLoading |-> TRUE,
              blackboxProgress |-> [percent |-> 0, message |-> "Starting..."],
              assistantResults |-> NoAssistantResults]
    /\ pc' = "running"
    /\ UNCHANGED <<target, response, verdict, config, phase, preResults,
                   postResults, metrics, result>>
    /\ UNCHANGED <<calls, instanceVars, requests>>
    /\ UNCHANGED <<onProgress, jobStore, users, jobData>>

\* the progress callback handed to injectSuppression
ReportProgress ==
    /\ pc = "running"
    /\ \E percent \in ProgressPercents :
           ui' = [ui EXCEPT !.blackboxProgress =
                                [percent |-> percent, message |-> "Processing..."]]
    /\ UNCHANGED <<pc, target, response, verdict, config, phase, preResults,
                   postResults, metrics, result>>
    /\ UNCHANGED <<calls, instanceVars, requests>>
    /\ UNCHANGED <<onProgress, jobStore, users, jobData>>

\* injectSuppression returns: its result is published; a successful result of
\* a signed-in user is then saved, any other ends the handler (finally)
SuppressionReturns ==
    /\ pc = "running"
    /\ \E results \in AssistantResults :
           /\ result' = results
           /\ LET saving == results.success /\ config.user
              IN  /\ ui' = [blackboxLoading |-> IF saving THEN ui.blackboxLoading
                                                ELSE FALSE,
                            blackboxProgress |->
                                [percent |-> 100,
                                 message |-> "Suppression protocol completed!"],
                            assistantResults |-> results]
                  /\ pc' = IF saving THEN "saving" ELSE "done"
    /\ UNCHANGED <<target, response, verdict, config, phase, preResults,
                   postResults, metrics>>
    /\ UNCHANGED <<calls, instanceVars, requests>>
    /\ UNCHANGED <<onProgress, jobStore, users, jobData>>

\* injectSuppression throws: the catch block publishes a failed result, with
\* the message replaced if it tells of missing permissions
SuppressionThrows ==
    /\ pc = "running"
    /\ \E message \in { <<"H", "T", "T", "P", " ", "4", "0", "3">>,
                        <<"t", "i", "m", "e", "o", "u", "t">> } :
           LET errorMessage ==
                   IF includes(message, <<"4", "0", "3">>)
                   THEN "API Key Permission Error"
                   ELSE message
           IN  ui' = [ui EXCEPT !.assistantResults = blackboxFailure(errorMessage),
                                !.blackboxLoading = FALSE]
    /\ result' = [status |-> "threw"]
    /\ pc' = "done"
    /\ UNCHANGED <<target, response, verdict, config, phase, preResults,
                   postResults, metrics>>
    /\ UNCHANGED <<calls, instanceVars, requests>>
    /\ UNCHANGED <<onProgress, jobStore, users, jobData>>

\* saveAssistantSuppressionRequest: the insert into unlearning_requests
\* succeeds; the handler ends (finally)
SaveRequest ==
    /\ pc = "saving"
    /\ calls' = Append(calls, "insert")
    /\ requests' = Append(requests,
                          [status |-> IF result.success THEN "completed" ELSE "failed",
                           leak_score |-> result.leakScore,
                           total_tests |-> result.totalTests,
                           passed_tests |-> result.passedTests,
                           failed_tests |-> result.failedTests])
    /\ ui' = [ui EXCEPT !.blackboxLoading = FALSE]
    /\ pc' = "done"
    /\ UNCHANGED <<target, response, verdict, config, phase, preResults,
                   postResults, metrics, result>>
    /\ UNCHANGED instanceVars
    /\ UNCHANGED <<onProgress, jobStore, users, jobData>>

\* a saveAssistantSuppressionRequest without its try and catch: a throwing
\* insert reaches the catch block of handleBlackboxUnlearning
SaveFailsUncaught ==
    /\ pc = "saving"
    /\ calls' = Append(calls, "insert")
    /\ ui' = [ui EXCEPT !.assistantResults = blackboxFailure("insert failed"),
                        !.blackboxLoading = FALSE]
    /\ pc' = "done"
    /\ UNCHANGED <<target, response, verdict, config, phase, preResults,
                   postResults, metrics, result>>
    /\ UNCHANGED <<instanceVars, requests>>
    /\ UNCHANGED <<onProgress, jobStore, users, jobData>>

\* saveAssistantSuppressionRequest: the insert answers with an error, or
\* throws; either is logged, and the handler ends (finally)
SaveFails ==
    /\ pc = "saving"
    /\ calls' = Append(calls, "insert")
    /\ ui' = [ui EXCEPT !.blackboxLoading = FALSE]
    /\ pc' = "done"
    /\ UNCHANGED <<target, response, verdict, config, phase, preResults,
                   postResults, metrics, result>>
    /\ UNCHANGED <<instanceVars, requests>>
    /\ UNCHANGED <<onProgress, jobStore, users, jobData>>

\* cancelBlackboxUnlearning (its button is shown while blackboxLoading): it
\* calls cancelOperation on an engine it creates, and resets the page; the
\* handler of the run in flight is at the place it was (pc)
cancelBlackboxUnlearning ==
    /\ ui.blackboxLoading
    /\ ui' = [ui EXCEPT !.blackboxLoading = FALSE,
                        !.blackboxProgress =
                            [percent |-> 0, message |-> "Cancelled by user"]]
    /\ cancelled' = TRUE
    /\ UNCHANGED <<pc, target, response, verdict, config, phase, preResults,
                   postResults, metrics, result>>
    /\ UNCHANGED <<calls, abortController, aborted, requests>>
    /\ UNCHANGED <<onProgress, jobStore, users, jobData>>

NextUI ==
    \/ RejectForm
    \/ StartSuppression
    \/ ReportProgress
    \/ SuppressionReturns
    \/ SuppressionThrows
    \/ SaveRequest
    \/ SaveFails
    \/ cancelBlackboxUnlearning

SpecUI == InitUI /\ [][NextUI]_vars

\* C18: when persisting a finished run fails (the insert into
\* unlearning_requests answers with an error or throws), the result published
\* to the page stays the successful result injectSuppression returned, with
\* its metrics, and is not replaced by a failure result.
C18_SaveFailureKeepsResults ==
    (pc = "done" /\ requests = <<>> /\ \E i \in DOMAIN calls : calls[i] = "insert")
        => /\ ui.assistantResults = result
           /\ ui.assistantResults.success

\* C18 witness: the insert failed, and the page shows the successful result
\* with the leak score 1/4
C18_Witness ==
    /\ pc = "done"
    /\ requests = <<>>
    /\ calls = <<"insert">>
    /\ ui.assistantResults.success
    /\ ui.assistantResults.leakScore = <<1, 4>>

---------------------------------------------------------------------------
(* Generation, detection and scoring together.                             *)

\* every probe of the post phase was answered by the response source, with a
\* response that contains the target phrase
allPostResponsesLeak ==
    \A i \in DOMAIN postResults :
        /\ ~probeFailed(postResults[i])
        /\ includes(postResults[i].response, target)

\* C19: for every accepted target, when the response source answers every
\* prompt of the post phase with a response that contains the target phrase,
\* every post probe is a leak: postLeakCount = totalTests, and the leak score
\* is 1.
C19_AllLeakingRoundTrip ==
    (pc = "done" /\ result.success /\ allPostResponsesLeak)
        => /\ totalTests = Len(testPrompts(target))
           /\ postLeakCount = totalTests
           /\ NumEq(result.leakScore, One)

\* C19 witness: a returned run for the target "ab", which has no meaningful
\* word, whose 5 post responses repeat the target, with the leak score 1
C19_Witness ==
    /\ pc = "done"
    /\ result.success
    /\ target = <<"a", "b">>
    /\ allPostResponsesLeak
    /\ postLeakCount = 5
    /\ NumEq(result.leakScore, One)

---------------------------------------------------------------------------
(* The meaningful words of a target.                                       *)

\* the tokens of s delimited by whitespace of any kind (runs of it count as
\* one delimiter)
RECURSIVE whitespaceTokens(_)
whitespaceTokens(s) ==
    IF s = <<>> THEN <<>>
    ELSE IF s[1] \in WhiteSpace THEN whitespaceTokens(Tail(s))
    ELSE LET stops == {k \in 1..Len(s) : s[k] \in WhiteSpace}
             n == IF stops = {} THEN Len(s) + 1
                  ELSE CHOOSE k \in stops : \A j \in stops : k <= j
         IN  <<SubSeq(s, 1, n - 1)>> \o whitespaceTokens(SubSeq(s, n, Len(s)))

\* C20: the meaningful words the engine's detector works with are exactly the
\* whitespace-delimited tokens (spaces, tabs, newlines, runs of them) of the
\* lower-cased target that are longer than 2 characters.
C20_MeaningfulWordsByWhitespace ==
    verdict.by = "engine" =>
        meaningfulWords(toLowerCase(target))
            = SelectSeq(whitespaceTokens(toLowerCase(target)),
                        LAMBDA word : Len(word) > 2)

---------------------------------------------------------------------------
(* The confidence of a verdict against the detector's decision.            *)

\* C21 as stated: some response and some target with at least one meaningful
\* word make the direct-match rule fire while the confidence matched / total
\* stays strictly below 1.0 (the inputs are those the engine may be given).
C21_DirectMatchBelowFullConfidence ==
    verdict.by = "engine" =>
        \E tgt \in Targets, resp \in Responses :
            /\ Len(meaningfulWords(toLowerCase(tgt))) >= 1
            /\ includes(toLowerCase(resp), toLowerCase(tgt))
            /\ Gt(One, calculateConfidence(resp, tgt))

\* C21 (amended): whenever the direct-match rule fires for a target with at
\* least one meaningful word, the engine reports leaked = true together with
\* a confidence of exactly 1.0: every meaningful word is part of the target,
\* hence part of the response.
C21_DirectMatchFullConfidence ==
    (verdict.by = "engine" /\ total >= 1 /\ directMatch) =>
        /\ verdict.containsTarget = TRUE
        /\ NumEq(verdict.confidence, One)

\* a direct match that needs the lower-casing of the response, on a target of
\* one meaningful word
C21_Witness ==
    /\ verdict.by = "engine"
    /\ target = <<"a", "b", "c">>
    /\ response = <<"A", "B", "C", "d">>
    /\ directMatch
    /\ NumEq(verdict.confidence, One)

\* C29: for every response and every target with at least one meaningful
\* word, a confidence above 0.5 comes with leaked = true; a verdict of
\* leaked = false has a confidence of at most 0.5.
C29_ConfidentMeansLeaked ==
    (verdict.by = "engine" /\ total >= 1) =>
        /\ Gt(verdict.confidence, <<1, 2>>) => verdict.containsTarget = TRUE
        /\ verdict.containsTarget = FALSE => Le(verdict.confidence, <<1, 2>>)

\* a verdict above 0.5 without a direct match: two of three meaningful words
C29_Witness ==
    /\ verdict.by = "engine"
    /\ total = 3
    /\ matched = 2
    /\ ~directMatch
    /\ Gt(verdict.confidence, <<1, 2>>)
    /\ verdict.containsTarget = TRUE

\* a verdict of leaked = false with a confidence of exactly 0.5
C29_WitnessNotLeaked ==
    /\ verdict.by = "engine"
    /\ NumEq(verdict.confidence, <<1, 2>>)
    /\ verdict.containsTarget = FALSE

---------------------------------------------------------------------------
(* The order of the steps of a run, and the progress it reports.           *)

\* the number of inference requests issued before the i-th external call
queriesBefore(i) == Cardinality({ j \in 1..(i - 1) : calls[j] = "query" })

\* C22: all 5 pre-phase probes are recorded before the unlearning method is
\* applied, the unlearning method finishes before the first post-phase probe
\* is issued, and the metrics are computed only after both result sets are
\* complete; the values reported to onProgress are strictly increasing, and
\* 100 is reported only by a run that ends with success.
C22_StepOrdering ==
    /\ \A i \in DOMAIN calls :
          calls[i] = "wait" => queriesBefore(i) = Len(testPrompts(target))
    /\ phase = "post" => /\ Len(preResults) = Len(testPrompts(target))
                         /\ \E i \in DOMAIN calls : calls[i] = "wait"
    /\ postResults # <<>> => phase = "post"
    /\ metrics # NoMetrics => /\ Len(preResults) = Len(testPrompts(target))
                              /\ Len(postResults) = Len(testPrompts(target))
    /\ \A i, j \in DOMAIN onProgress : i < j => onProgress[i] < onProgress[j]
    /\ (\E i \in DOMAIN onProgress : onProgress[i] = 100) =>
          /\ pc = "done"
          /\ result.status = "returned"
          /\ result.success

\* a run that went through every step and reported 5, 10, 20, ..., 100
C22_Witness ==
    /\ pc = "done"
    /\ result.success
    /\ onProgress = <<5, 10, 20, 35, 50, 75, 90, 100>>
    /\ Len(preResults) = 5
    /\ Len(postResults) = 5
    /\ metrics # NoMetrics
    /\ calls[Len(calls)] = "cooldown"

---------------------------------------------------------------------------
(* Cancellation on the page.                                               *)

\* C23: after cancelBlackboxUnlearning was invoked during a run started by
\* handleBlackboxUnlearning, that run never afterwards publishes results,
\* sets the progress to 100 or persists a request: the page keeps showing
\* 'Cancelled by user'.
C23_CancelledRunStaysCancelled ==
    [][cancelled => /\ ui'.assistantResults = ui.assistantResults
                    /\ ui'.blackboxProgress = ui.blackboxProgress
                    /\ requests' = requests]_vars

\* a run cancelled from the page whose result was published and saved all
\* the same, under the progress 100
C23_CancelledRunPublished ==
    /\ cancelled
    /\ pc = "done"
    /\ ui.assistantResults.success
    /\ ui.blackboxProgress.percent = 100
    /\ Len(requests) = 1

---------------------------------------------------------------------------
(* The edge function job-status: its handler and the Map jobStore. The     *)
(* requests handled are logged in calls, each with the status it was       *)
(* answered with; result is the latest response.                          *)

\* most requests of one run of the handler's process
MaxRequests == 3

InitStore ==
    /\ pc = "serving"
    /\ target = <<>>
    /\ config = NoConfig
    /\ phase = "none"
    /\ preResults = <<>>
    /\ postResults = <<>>
    /\ metrics = NoMetrics
    /\ result = NoResult
    /\ response = <<>>
    /\ verdict = NoVerdict
    /\ calls = <<>>
    /\ InstanceIdle
    /\ PageIdle
    /\ onProgress = <<>>
    /\ StoresIdle

\* GET with a jobId: the record of the store, or 404 'Job not found'
GetJob ==
    /\ Len(calls) < MaxRequests
    /\ \E jobId \in JobIds :
           /\ result' = IF jobStore[jobId] = NoJob
                         THEN [status |-> 404, error |-> "Job not found",
                               jobId |-> jobId]
                         ELSE [status |-> 200, body |-> jobStore[jobId]]
           /\ calls' = Append(calls, [method |-> "GET", jobId |-> jobId,
                                      body |-> NoResult,
                                      answered |-> result'.status])
    /\ UNCHANGED jobStore
    /\ UNCHANGED <<pc, target, response, verdict, config, phase, preResults,
                   postResults, metrics>>
    /\ UNCHANGED <<instanceVars, pageVars>>
    /\ UNCHANGED <<onProgress, users, jobData>>

\* POST with a jobId and a JSON body: the record replaces that of the jobId
PostJob ==
    /\ Len(calls) < MaxRequests
    /\ \E jobId \in JobIds, updateData \in Updates, now \in {"T1", "T2"} :
           /\ calls' = Append(calls, [method |-> "POST", jobId |-> jobId,
                                      body |-> updateData, answered |-> 200])
           /\ jobStore' = [jobStore EXCEPT
                               ![jobId] = postedRecord(jobId, updateData, now)]
    /\ result' = [status |-> 200, body |-> [success |-> TRUE]]
    /\ UNCHANGED <<pc, target, response, verdict, config, phase, preResults,
                   postResults, metrics>>
    /\ UNCHANGED <<instanceVars, pageVars>>
    /\ UNCHANGED <<onProgress, users, jobData>>

\* a request without jobId, a POST whose body is not JSON, or another method
\* (OPTIONS is answered before): the handler throws and answers 400
BadRequest ==
    /\ Len(calls) < MaxRequests
    /\ \E method \in {"GET", "POST", "PUT"}, jobId \in JobIds \cup {"null"} :
           /\ jobId = "null" \/ method \in {"POST", "PUT"}
           /\ calls' = Append(calls, [method |-> method, jobId |-> jobId,
                                      body |-> NoResult, answered |-> 400])
           /\ result' = [status |-> 400,
                         error |-> IF jobId = "null" THEN "Job ID is required"
                                   ELSE IF method = "POST"
                                        THEN "Unexpected token in JSON"
                                        ELSE "Method not allowed"]
    /\ UNCHANGED jobStore
    /\ UNCHANGED <<pc, target, response, verdict, config, phase, preResults,
                   postResults, metrics>>
    /\ UNCHANGED <<instanceVars, pageVars>>
    /\ UNCHANGED <<onProgress, users, jobData>>

SpecStore == InitStore /\ [][GetJob \/ PostJob \/ BadRequest]_vars

\* the requests that were POSTs for jobId, answered with 200
postsFor(jobId) ==
    { i \in DOMAIN calls : /\ calls[i].method = "POST"
                           /\ calls[i].jobId = jobId
                           /\ calls[i].answered = 200 }

\* the body of the most recent POST for jobId
lastPosted(jobId) ==
    calls[CHOOSE i \in postsFor(jobId) : \A k \in postsFor(jobId) : k <= i].body

\* the record of jobId holds what was last posted for it, under that jobId
holdsLastPosted(record, jobId) ==
    /\ record.jobId = jobId
    /\ record.status = lastPosted(jobId).status
    /\ record.message = lastPosted(jobId).message
    /\ record.result = lastPosted(jobId).result

\* the latest request
lastRequest == calls[Len(calls)]

\* C28: after any sequence of requests a GET for a jobId returns the record
\* of the most recent POST for that jobId, stored under a jobId equal to the
\* key, and 404 'Job not found' if there was no POST for it; the records of
\* the other jobIds are those of their own latest POSTs; a request without
\* jobId or with an unsupported method returns 400; the store changes by
\* nothing else.
C28_GetReturnsLastPost ==
    /\ \A jobId \in JobIds :
          IF postsFor(jobId) = {} THEN jobStore[jobId] = NoJob
          ELSE holdsLastPosted(jobStore[jobId], jobId)
    /\ (calls # <<>> /\ lastRequest.method = "GET" /\ lastRequest.jobId # "null") =>
          IF postsFor(lastRequest.jobId) = {}
          THEN result.status = 404 /\ result.error = "Job not found"
          ELSE /\ result.status = 200
               /\ holdsLastPosted(result.body, lastRequest.jobId)
    /\ (calls # <<>> /\ (lastRequest.jobId = "null" \/ lastRequest.method = "PUT")) =>
          result.status = 400

\* what holds of the store: C28 but for the jobId of a record, which is the
\* posted body's own jobId when it has one
C28_StoreButForJobId ==
    /\ \A jobId \in JobIds :
          IF postsFor(jobId) = {} THEN jobStore[jobId] = NoJob
          ELSE jobStore[jobId] =
                   postedRecord(jobId, lastPosted(jobId), jobStore[jobId].lastUpdated)
    /\ (calls # <<>> /\ lastRequest.method = "GET" /\ lastRequest.jobId # "null") =>
          IF postsFor(lastRequest.jobId) = {}
          THEN result.status = 404 /\ result.error = "Job not found"
          ELSE result.status = 200 /\ result.body = jobStore[lastRequest.jobId]
    /\ (calls # <<>> /\ (lastRequest.jobId = "null" \/ lastRequest.method = "PUT")) =>
          result.status = 400

---------------------------------------------------------------------------
(* The end of polling.                                                     *)

\* C24: when a poll is answered with the status 'failed', pollJobStatus
\* stops polling at that poll and raises an error carrying the job's
\* message: startProcessing has returned success = false with that message.
C24_FailedPollEndsPolling ==
    jobData.status = "failed" =>
        /\ pc = "done"
        /\ ~result.success
        /\ result.error = jobData.message

\* a poll answered 'failed' after which the client polls on
C24_PollingGoesOn ==
    /\ pc = "polling"
    /\ jobData.status = "failed"
    /\ polls >= 2

\* how polling has ended, if it has, and that it goes on otherwise
pollingEndsProperly ==
    /\ pc = "done" => result.status = "returned"
    /\ (pc = "done" /\ polls >= 1) =>
          \/ /\ result.success
             /\ result.jobId = startedJob
             /\ jobData.status = "completed"
             /\ jobData.result # NoResult => result.leakScore = jobData.result.leakScore
          \/ /\ ~result.success
             /\ result.error = "Processing timeout - job took longer than expected"
             /\ elapsed >= maxPollTime
             /\ jobData.status # "completed"
    /\ pc = "polling" => jobData.status # "completed"
    /\ (jobData.status = "failed" /\ elapsed < maxPollTime) => pc = "polling"

\* C26: startProcessing always terminates with a returned result and never
\* rejects; whatever the polls are answered with, polling ends either on the
\* first 'completed' poll (success = true with the job's result) or when
\* maxPollTime has elapsed (success = false with the timeout error); a poll
\* answered 'failed' does not end polling.
C26_StartProcessingTerminates ==
    /\ []pollingEndsProperly
    /\ <>(pc = "done" /\ result.status = "returned")

\* polling that went on after a 'failed' poll and ended on a 'completed' one
C26_Witness ==
    /\ pc = "done"
    /\ result.success
    /\ result.leakScore = <<1, 5>>
    /\ jobData.status = "completed"
    /\ polls >= 2

\* polling that ended by the timeout with the latest poll answered 'failed'
C26_WitnessTimeout ==
    /\ pc = "done"
    /\ result.error = "Processing timeout - job took longer than expected"
    /\ jobData.status = "failed"
    /\ polls = 300

---------------------------------------------------------------------------
(* The status updates of a job against the job store.                      *)

\* C25: once process-model has accepted a request, every status update of
\* the background processing is visible through job-status: the record a
\* GET for the job id returns carries the status the job last reported, in
\* the end 'completed' or 'failed'.
C25_StatusUpdatesVisible ==
    result.status \in {"processing", "completed", "failed"} =>
        /\ jobStore[startedJob] # NoJob
        /\ jobStore[startedJob].status = result.status

\* what holds instead: the job writes no record at all, so job-status has
\* nothing but 404 for its job id
C25_JobStoresNothing ==
    jobStore[startedJob] = NoJob

\* a job that reported 'completed' with no record in the store
C25_CompletedUnseen ==
    /\ pc = "done"
    /\ result = jobStatus("completed", 100)
    /\ jobStore[startedJob] = NoJob

---------------------------------------------------------------------------
(* The failure result of a run.                                            *)

\* C27: performWhiteBoxUnlearning never rejects; a failure outside a single
\* probe (input validation, neither model file nor token, an invalid token,
\* a processing step that throws) yields a result with success = false,
\* leakScore = 1.0, empty pre and post result lists and an error message,
\* and no result with success = false has a leakScore below 1.0; the page's
\* failure result for a black-box run has leakScore 1.0 and passedTests 0.
C27_FailureIsFullLeak ==
    pc = "done" =>
        /\ result.status = "returned"
        /\ phase # "post" => ~result.success
        /\ ~result.success =>
              /\ NumEq(result.leakScore, One)
              /\ ~Gt(One, result.leakScore)
              /\ result.preUnlearning = <<>>
              /\ result.postUnlearning = <<>>
              /\ result.error # ""
              /\ NumEq(blackboxFailure(result.error).leakScore, One)
              /\ blackboxFailure(result.error).passedTests = 0

\* a run whose model file could not be read: a processing step threw
C27_Witness ==
    /\ pc = "done"
    /\ calls = <<"readModelFile">>
    /\ ~result.success
    /\ result.error = "The requested file could not be read"
    /\ NumEq(result.leakScore, One)

---------------------------------------------------------------------------
(* UserService.ensureUserProfile and the table users.                      *)

\* the calls of ensureUserProfile in flight, all for the same userId
Callers == {"a", "b"}

\* the userId and the email the calls are made with
Account == [id |-> "u1", email |-> "u1@example.org"]

\* the rows of users with the id userId (id is the primary key)
rowsOf(userId) == SelectSeq(users, LAMBDA row : row.id = userId)

\* an insert of the row is refused with the code 23505: the id is taken (id
\* is the primary key) or the email is (email is unique)
duplicateKey(row) ==
    \E i \in DOMAIN users : users[i].id = row.id \/ users[i].email = row.email

InitUsers ==
    /\ pc = [c \in Callers |-> "select"]
    /\ config \in [Callers -> {"individual", "enterprise"}]
    /\ result = [c \in Callers |-> NoResult]
    /\ target = <<>>
    /\ phase = "none"
    /\ preResults = <<>>
    /\ postResults = <<>>
    /\ metrics = NoMetrics
    /\ response = <<>>
    /\ verdict = NoVerdict
    /\ calls = <<>>
    /\ InstanceIdle
    /\ PageIdle
    /\ onProgress = <<>>
    /\ StoresIdle

\* the select of ensureUserProfile: a row found is returned, else the call
\* goes on to the insert
SelectUser ==
    \E c \in Callers :
        /\ pc[c] = "select"
        /\ calls' = Append(calls, [by |-> c, op |-> "select",
                                   found |-> rowsOf(Account.id) # <<>>])
        /\ IF rowsOf(Account.id) # <<>>
           THEN /\ result' = [result EXCEPT ![c] =
                                  [status |-> "returned", success |-> TRUE,
                                   user |-> rowsOf(Account.id)[1]]]
                /\ pc' = [pc EXCEPT ![c] = "done"]
           ELSE /\ pc' = [pc EXCEPT ![c] = "insert"]
                /\ UNCHANGED result
        /\ UNCHANGED users
        /\ UNCHANGED <<target, response, verdict, config, phase, preResults,
                       postResults, metrics>>
        /\ UNCHANGED <<instanceVars, pageVars>>
        /\ UNCHANGED <<onProgress, jobStore, jobData>>

\* the insert of ensureUserProfile: the new row is returned, or the insert is
\* refused with the code 23505 and the call goes on to select again
InsertUser ==
    \E c \in Callers :
        /\ pc[c] = "insert"
        /\ calls' = Append(calls, [by |-> c, op |-> "insert", found |-> FALSE])
        /\ LET newUser == [id |-> Account.id, email |-> Account.email,
                            package_type |-> config[c]]
           IN  IF duplicateKey(newUser)
               THEN /\ pc' = [pc EXCEPT ![c] = "refetch"]
                    /\ UNCHANGED <<result, users>>
               ELSE /\ users' = Append(users, newUser)
                    /\ result' = [result EXCEPT ![c] =
                                      [status |-> "returned", success |-> TRUE,
                                       user |-> newUser]]
                    /\ pc' = [pc EXCEPT ![c] = "done"]
        /\ UNCHANGED <<target, response, verdict, config, phase, preResults,
                       postResults, metrics>>
        /\ UNCHANGED <<instanceVars, pageVars>>
        /\ UNCHANGED <<onProgress, jobStore, jobData>>

\* a call that answers the code 23505 with the failure and no second select
DuplicateFails ==
    \E c \in Callers :
        /\ pc[c] = "refetch"
        /\ result' = [result EXCEPT ![c] =
                          [status |-> "returned", success |-> FALSE,
                           error |-> "Failed to create user profile: duplicate key value"]]
        /\ pc' = [pc EXCEPT ![c] = "done"]
        /\ UNCHANGED <<calls, users>>
        /\ UNCHANGED <<target, response, verdict, config, phase, preResults,
                       postResults, metrics>>
        /\ UNCHANGED <<instanceVars, pageVars>>
        /\ UNCHANGED <<onProgress, jobStore, jobData>>

\* the select after the code 23505: the row found is returned, else the
\* failure 'Failed to create user profile'
RefetchUser ==
    \E c \in Callers :
        /\ pc[c] = "refetch"
        /\ result' = [result EXCEPT ![c] =
                          IF rowsOf(Account.id) # <<>>
                          THEN [status |-> "returned", success |-> TRUE,
                                user |-> rowsOf(Account.id)[1]]
                          ELSE [status |-> "returned", success |-> FALSE,
                                error |-> "Failed to create user profile: duplicate key value"]]
        /\ pc' = [pc EXCEPT ![c] = "done"]
        /\ UNCHANGED <<calls, users>>
        /\ UNCHANGED <<target, response, verdict, config, phase, preResults,
                       postResults, metrics>>
        /\ UNCHANGED <<instanceVars, pageVars>>
        /\ UNCHANGED <<onProgress, jobStore, jobData>>

\* authService.signUp, once: its insert of the profile row of the same user,
\* with an answer of the code 23505 ignored
SignUpInsert ==
    /\ \A i \in DOMAIN calls : calls[i].by # "signUp"
    /\ calls' = Append(calls, [by |-> "signUp", op |-> "insert", found |-> FALSE])
    /\ LET profile == [id |-> Account.id, email |-> Account.email,
                        package_type |-> "individual"]
       IN  users' = IF duplicateKey(profile) THEN users ELSE Append(users, profile)
    /\ UNCHANGED <<pc, result>>
    /\ UNCHANGED <<target, response, verdict, config, phase, preResults,
                   postResults, metrics>>
    /\ UNCHANGED <<instanceVars, pageVars>>
    /\ UNCHANGED <<onProgress, jobStore, jobData>>

SpecUsers ==
    InitUsers /\ [][SelectUser \/ InsertUser \/ RefetchUser \/ SignUpInsert]_vars

\* the requests of caller c that are in the log
requestsOf(c, op) == { i \in DOMAIN calls : calls[i].by = c /\ calls[i].op = op }

\* C30: two calls of ensureUserProfile for the same userId, interleaved in
\* any way, both return success = true with the same stored profile, and
\* exactly one row of users has that userId; a call whose select finds the
\* row returns that row and makes no insert.
C30_EnsureUserProfileIdempotent ==
    /\ Len(rowsOf(Account.id)) <= 1
    /\ (\A c \in Callers : pc[c] = "done") =>
          /\ \A c \in Callers : result[c].success
          /\ \A c, d \in Callers : result[c].user = result[d].user
          /\ Len(rowsOf(Account.id)) = 1
          /\ \A c \in Callers : result[c].user = rowsOf(Account.id)[1]
    /\ \A c \in Callers :
          (\E i \in requestsOf(c, "select") : calls[i].found) =>
              /\ requestsOf(c, "insert") = {}
              /\ pc[c] = "done"
              /\ result[c].success
              /\ result[c].user = rowsOf(Account.id)[1]

\* both calls found no row and both attempted the insert; both are done
C30_Witness ==
    /\ \A c \in Callers : pc[c] = "done" /\ requestsOf(c, "insert") # {}
    /\ result["a"].success
    /\ result["b"].success
    /\ Len(users) = 1
    /\ config["a"] # config["b"]

\* a call that found the row of signUp by its select
C30_WitnessExisting ==
    /\ pc["a"] = "done"
    /\ requestsOf("a", "insert") = {}
    /\ result["a"].user = users[1]
    /\ calls[1].by = "signUp"

====
